---- MODULE Spec2Model ----
(***************************************************************************)
(* Episode lineup planning of 365Podcast: LineupAgent.detect_status and    *)
(* LineupAgent.create_lineup (src/src/services/lineup_agent.py) with the   *)
(* helpers they call, and GameStatus (src/src/models/enums.py).            *)
(*                                                                         *)
(* Conventions.                                                            *)
(*  - A Python str on which the code does text work (upper, in, strip,     *)
(*    f-string) is a sequence of one-character strings.                    *)
(*  - An Optional[int] is a sequence of length 0 (None) or 1.              *)
(*  - A value of a duck-typed JSON field is a tagged record                *)
(*    [t |-> "int" | "str" | "absent", v |-> Int].                         *)
(*  - An exception leaving a function is the record Raised(name).          *)
(***************************************************************************)
EXTENDS Integers, Sequences, FiniteSets, TLC

VARIABLES
    pc,                      \* position of the create_lineup coroutine
    game_context,            \* argument game_context of create_lineup
    total_duration_minutes,  \* argument total_duration_minutes
    status,                  \* local status of create_lineup (EpisodeStatus)
    oracle,                  \* how the awaited Claude call ended
    prioritized_data,        \* local prioritized_data of create_lineup
    result,                  \* the PodcastLineup returned, or the exception raised
    game,                    \* the Game given to detect_status
    now,                     \* datetime.now(timezone.utc), in seconds
    detected,                \* what detect_status returned
    games,                   \* argument games of ContentRouter.determine_mode
    mode,                    \* what determine_mode returned (ContentMode)
    smoother_arg,            \* argument segments_data of _enforce_tone_transitions
    smoother_ret,            \* what _enforce_tone_transitions returned
    score_arg,               \* the prioritized_data passed to _calculate_priority_score
    score_ret,               \* what _calculate_priority_score returned, in tenths
    heap,                    \* the dict and Game objects reachable from a game_context, by reference
    calls,                   \* the invocations of create_lineup and generate_script_prompt on it
    retry_pc,                \* where the wrapper of with_retry stands
    max_attempts,            \* with_retry(max_attempts=...)
    exceptions,              \* with_retry(exceptions=...): the listed exception types
    attempt,                 \* the loop variable of the wrapper
    delay,                   \* the delay of the next sleep
    last_exception,          \* the last listed exception caught
    history,                 \* the outcome of every invocation of the wrapped function
    sleeps,                  \* the delays slept, in order
    retry_ret,               \* what the wrapper returned or raised
    podcast_cache,           \* JobStore._podcast_cache: game_id -> the cached entry, if any
    cache_now,               \* datetime.now(timezone.utc), in hours
    cache_ret,               \* what the last call on the cache returned
    jobs,                    \* JobStore._jobs: job_id -> the job, if created
    tasks,                   \* the background task of each job: none, queued, generating, ended
    job_ret                  \* what the last call of get_job_status returned

vars == <<pc, game_context, total_duration_minutes, status, oracle,
          prioritized_data, result, game, now, detected, games, mode,
          smoother_arg, smoother_ret,
          score_arg, score_ret,
          heap, calls,
          retry_pc, max_attempts, exceptions, attempt, delay, last_exception, history, sleeps, retry_ret,
          podcast_cache, cache_now, cache_ret,
          jobs, tasks, job_ret>>

lineupVars == <<pc, game_context, total_duration_minutes, status, oracle,
                prioritized_data, result>>

statusVars == <<game, now, detected>>

routerVars == <<games, mode>>

smootherVars == <<smoother_arg, smoother_ret>>

scoreVars == <<score_arg, score_ret>>

frameVars == <<heap, calls>>

retryVars == <<retry_pc, max_attempts, exceptions, attempt, delay, last_exception, history, sleeps, retry_ret>>

cacheVars == <<podcast_cache, cache_now, cache_ret>>

jobVars == <<jobs, tasks, job_ret>>

-----------------------------------------------------------------------------
(* Bounds of the model *)

MaxCands == 2

MaxMinutes == 1

MaxScore == 2

MaxTicks == 1

MaxGames == 2

MaxTones == 3
MaxStories == 4
MaxCalls == 2
MaxAttempts == 3
MaxHours == 2
MaxJobs == 2

-----------------------------------------------------------------------------
(* Program constants *)

WORDS_PER_SECOND_X2 == 5

intro_outro_time == 30

final_ticket_time == 30

MinSegmentSeconds == 15

DefaultPriority == 50

SmootherStartTone == 3

IntroToneLevel == 4

OutroToneLevel == 3

TicketToneLevel == 3

MaxToneJump == 2

TwoHoursSeconds == 7200

DefaultMinutes == 5

\* utils/retry.py, the defaults of with_retry
initial_delay == 1
backoff_factor == 2

\* services/job_store.py, JobStore.__init__
cache_ttl_hours == 24

-----------------------------------------------------------------------------
(* Generic helpers *)

None == <<>>

Some(x) == <<x>>

Min(a, b) == IF a <= b THEN a ELSE b

Max(a, b) == IF a >= b THEN a ELSE b

Abs(a) == IF a >= 0 THEN a ELSE -a

\* Python int() of the quotient n/d (d > 0): truncation toward zero.
TruncDiv(n, d) == IF n >= 0 THEN n \div d ELSE -((-n) \div d)

SeqsUpTo(S, n) == UNION {[1..k -> S] : k \in 0..n}

\* The outcome of a call: a value returned, or an exception raised.
Ok(v) == [raised |-> "none", value |-> v]

Raised(name) == [raised |-> name, value |-> <<>>]

IsRaised(x) == x.raised # "none"

-----------------------------------------------------------------------------
(* Text: str.upper, the in operator on str, str.strip *)

UpperChar(c) ==
    CASE c = "a" -> "A" [] c = "b" -> "B" [] c = "c" -> "C" [] c = "d" -> "D"
      [] c = "e" -> "E" [] c = "f" -> "F" [] c = "g" -> "G" [] c = "h" -> "H"
      [] c = "i" -> "I" [] c = "j" -> "J" [] c = "k" -> "K" [] c = "l" -> "L"
      [] c = "m" -> "M" [] c = "n" -> "N" [] c = "o" -> "O" [] c = "p" -> "P"
      [] c = "q" -> "Q" [] c = "r" -> "R" [] c = "s" -> "S" [] c = "t" -> "T"
      [] c = "u" -> "U" [] c = "v" -> "V" [] c = "w" -> "W" [] c = "x" -> "X"
      [] c = "y" -> "Y" [] c = "z" -> "Z" [] OTHER -> c

Upper(s) == [i \in 1..Len(s) |-> UpperChar(s[i])]

\* sub in s
Contains(s, sub) ==
    \E i \in 1..(Len(s) - Len(sub) + 1) : SubSeq(s, i, i + Len(sub) - 1) = sub

\* bool(s.strip())
StripNonEmpty(s) == \E i \in 1..Len(s) : s[i] # " "

STR_NA == <<"N", "/", "A">>

STR_NOT_AVAILABLE == <<"N", "O", "T", "_", "A", "V", "A", "I", "L", "A", "B", "L", "E">>

\* "NOT_AVAILABLE" in fact.upper() or "N/A" in fact.upper()
IsPlaceholder(fact) ==
    Contains(Upper(fact), STR_NOT_AVAILABLE) \/ Contains(Upper(fact), STR_NA)

-----------------------------------------------------------------------------
(* GameStatus, src/src/models/enums.py *)

DIDNT_START == 0

FINISHED == 1

ACTIVE == 2

JUST_ENDED == 163

is_finished(gt) ==
    IF gt = 99 \/ (gt >= 90 /\ gt < 200) THEN TRUE ELSE gt \in {FINISHED, JUST_ENDED}

is_upcoming(gt) == gt <= DIDNT_START

is_live(gt) == gt = ACTIVE

-----------------------------------------------------------------------------
(* LineupAgent.detect_status *)

PRE_MATCH == "pre_match"

POST_MATCH == "post_match"

\* Outcome of parsing game.stime (lines 303-323).  fmt is the layout of the
\* text and t the instant it denotes:
\*   "iso_tz"    ISO-8601 with offset or Z: fromisoformat gives an aware time
\*   "iso_naive" ISO-8601 without offset (also "YYYY-MM-DD HH:MM:SS"):
\*               fromisoformat succeeds and gives a naive time
\*   "dmy"       "DD-MM-YYYY HH:MM", "dmy_slash" "DD/MM/YYYY HH:MM": strptime,
\*               then tzinfo set to UTC
\*   "garbage"   no layout matches: ValueError
ParseStime(st) ==
    CASE st.fmt = "iso_tz"    -> [ok |-> TRUE, aware |-> TRUE, t |-> st.t]
      [] st.fmt = "iso_naive" -> [ok |-> TRUE, aware |-> FALSE, t |-> st.t]
      [] st.fmt = "dmy"       -> [ok |-> TRUE, aware |-> TRUE, t |-> st.t]
      [] st.fmt = "dmy_slash" -> [ok |-> TRUE, aware |-> TRUE, t |-> st.t]
      [] OTHER                -> [ok |-> FALSE, aware |-> FALSE, t |-> 0]

\* Lines 275-282: score, then winner, both under the score-pair condition.
ScoreTier(g) ==
    IF g.scrs # <<>> /\ Len(g.scrs) >= 2
    THEN IF \E i \in 1..Len(g.scrs) : g.scrs[i] >= 0 /\ g.scrs[i] > 0
         THEN Some(POST_MATCH)
         ELSE IF g.winner # None /\ g.winner[1] >= 0
              THEN Some(POST_MATCH)
              ELSE None
    ELSE None

\* Lines 285-298: the GameStatus rules, then the 99 / 90..199 rule.
StatusTier(g) ==
    IF is_finished(g.gt) THEN Some(POST_MATCH)
    ELSE IF is_upcoming(g.gt) THEN Some(PRE_MATCH)
    ELSE IF is_live(g.gt) THEN Some(POST_MATCH)
    ELSE IF (g.gt = 99 \/ (g.gt >= 90 /\ g.gt < 200))
            /\ (g.is_started \/ (g.scrs # <<>> /\ Len(g.scrs) >= 2))
         THEN Some(POST_MATCH)
         ELSE None

\* Lines 301-337.  Comparing a naive time with the aware current time raises
\* TypeError, which the except clause (ValueError, AttributeError) lets through.
TimeTier(g, clock) ==
    IF g.stime = None THEN None
    ELSE LET p == ParseStime(g.stime[1]) IN
         IF ~p.ok THEN None
         ELSE IF ~p.aware THEN Some("TypeError")
         ELSE IF p.t < clock
              THEN IF clock - p.t > TwoHoursSeconds THEN Some(POST_MATCH)
                   ELSE IF g.scrs # <<>> \/ (g.winner # None /\ g.winner[1] >= 0)
                        THEN Some(POST_MATCH)
                        ELSE None
              ELSE None

\* The historical ordering: status code before score.
detect_status_StatusFirst(g, clock) ==
    IF StatusTier(g) # None THEN StatusTier(g)[1]
    ELSE IF ScoreTier(g) # None THEN ScoreTier(g)[1]
    ELSE IF TimeTier(g, clock) # None THEN TimeTier(g, clock)[1]
    ELSE PRE_MATCH

\* An ordering that consults the start time before the status code.
detect_status_TimeFirst(g, clock) ==
    IF ScoreTier(g) # None THEN ScoreTier(g)[1]
    ELSE IF TimeTier(g, clock) # None THEN TimeTier(g, clock)[1]
    ELSE IF StatusTier(g) # None THEN StatusTier(g)[1]
    ELSE PRE_MATCH

\* Returns PRE_MATCH, POST_MATCH, or "TypeError" when the call raises.
detect_status(g, clock) ==
    IF ScoreTier(g) # None THEN ScoreTier(g)[1]
    ELSE IF StatusTier(g) # None THEN StatusTier(g)[1]
    ELSE IF TimeTier(g, clock) # None THEN TimeTier(g, clock)[1]
    ELSE PRE_MATCH

-----------------------------------------------------------------------------
(* Candidates ("segment_suggestions" entries) and the values drawn for them *)

IntVal(n) == [t |-> "int", v |-> n]

StrVal == [t |-> "str", v |-> 0]

AbsentVal == [t |-> "absent", v |-> 0]

\* seg.get(key, default) for a tagged value that is an int or absent
GetInt(x, default) == IF x.t = "absent" THEN default ELSE x.v

EmptyCue == [kind |-> "empty", text |-> "", from |-> 0, to |-> 0]

GivenCue(text) == [kind |-> "given", text |-> text, from |-> 0, to |-> 0]

\* f"Gradually shift from tone level {previous_tone} to {adjusted_tone}"
GradualCue(previous_tone, adjusted_tone) ==
    [kind |-> "gradual", text |-> "Gradually shift from tone level {} to {}",
     from |-> previous_tone, to |-> adjusted_tone]

\* f"Transition from previous segment (tone {previous_tone})"
GenericCue(previous_tone) ==
    [kind |-> "generic", text |-> "Transition from previous segment (tone {})",
     from |-> previous_tone, to |-> 0]

Topic(fmt, args) == [fmt |-> fmt, args |-> args]

STR_Fact == <<"W", "W", "D">>

STR_na == <<"n", "/", "a">>

\* (key_facts, source_refs) of the candidates the oracle returns
Groundings ==
    { <<  <<STR_Fact>>, <<>>  >>,            \* a real fact, no reference
      <<  <<STR_na>>, <<"form">>  >>,        \* a placeholder fact, a reference
      <<  <<STR_na>>, <<>>  >> }             \* a placeholder fact, no reference

\* (priority, suggested_duration_seconds)
Weights == { <<IntVal(80), 0>>, <<IntVal(0), 90>> }

ValidTones == {1, 3, 5}

WellFormedCandidates ==
    { [topic |-> Topic("oracle topic", <<>>),
       priority |-> w[1],
       suggested_duration_seconds |-> w[2],
       key_facts |-> g[1],
       source_refs |-> g[2],
       tone_level |-> t,
       transition_cue |-> EmptyCue] :
         w \in Weights, g \in Groundings, t \in ValidTones }
    \cup { [topic |-> Topic("oracle topic", <<>>),
            priority |-> IntVal(80),
            suggested_duration_seconds |-> 0,
            key_facts |-> << <<" ">> >>,          \* a blank fact, no reference
            source_refs |-> <<>>,
            tone_level |-> 3,
            transition_cue |-> EmptyCue] }

\* Entries that parse as JSON and violate the candidate schema: a tone level
\* outside 1..5, a priority that is a string.
MalformedCandidates ==
    { [topic |-> Topic("oracle topic", <<>>),
       priority |-> IntVal(80),
       suggested_duration_seconds |-> 0,
       key_facts |-> <<STR_Fact>>,
       source_refs |-> <<>>,
       tone_level |-> 7,
       transition_cue |-> GivenCue("cue")],
      [topic |-> Topic("oracle topic", <<>>),
       priority |-> StrVal,
       suggested_duration_seconds |-> 0,
       key_facts |-> <<STR_Fact>>,
       source_refs |-> <<>>,
       tone_level |-> 3,
       transition_cue |-> GivenCue("cue")] }

OracleCandidates == WellFormedCandidates \cup MalformedCandidates

IsWellFormed(c) == c.priority.t = "int" /\ c.tone_level \in 1..5

-----------------------------------------------------------------------------
(* LineupAgent._has_available_data *)

has_available_data_KeepAll(key_facts, seg_data) == TRUE

\* A filter that looks at the key facts only
has_available_data_FactsOnly(key_facts, seg_data) ==
    \E i \in 1..Len(key_facts) :
        ~IsPlaceholder(key_facts[i]) /\ StripNonEmpty(key_facts[i])

has_available_data(key_facts, seg_data) ==
    IF key_facts # <<>>
       /\ \E i \in 1..Len(key_facts) :
              ~Contains(Upper(key_facts[i]), STR_NOT_AVAILABLE)
              /\ ~Contains(Upper(key_facts[i]), STR_NA)
              /\ StripNonEmpty(key_facts[i])
    THEN TRUE
    ELSE IF seg_data.source_refs # <<>> THEN TRUE
    ELSE FALSE

-----------------------------------------------------------------------------
(* LineupAgent._enforce_tone_transitions *)

\* Lines 984-1007 for one element; returns the adjusted element.
AdjustTone(seg, i, previous_tone) ==
    LET current_tone == seg.tone_level
        tone_diff == Abs(current_tone - previous_tone)
    IN  IF tone_diff > MaxToneJump
        THEN LET adjusted_tone ==
                     IF current_tone > previous_tone
                     THEN Min(previous_tone + 2, current_tone)
                     ELSE Max(previous_tone - 2, current_tone)
             IN  [seg EXCEPT !.tone_level = adjusted_tone,
                             !.transition_cue = GradualCue(previous_tone, adjusted_tone)]
        ELSE IF i > 1 /\ seg.transition_cue.kind = "empty"
             THEN [seg EXCEPT !.transition_cue = GenericCue(previous_tone)]
             ELSE seg

RECURSIVE SmoothFrom(_, _, _, _)
SmoothFrom(segments_data, i, previous_tone, adjusted_segments) ==
    IF i > Len(segments_data) THEN adjusted_segments
    ELSE LET seg == AdjustTone(segments_data[i], i, previous_tone)
         IN  SmoothFrom(segments_data, i + 1, seg.tone_level,
                        Append(adjusted_segments, seg))

\* A smoother that returns its input
enforce_tone_transitions_Identity(segments_data) == segments_data

enforce_tone_transitions(segments_data) ==
    IF segments_data = <<>> THEN segments_data
    ELSE SmoothFrom(segments_data, 1, SmootherStartTone, <<>>)

-----------------------------------------------------------------------------
(* String literals of lineup_agent.py, and the names and rates of the contexts *)

STR_HomeTeam ==
    <<"H", "o", "m", "e", " ", "T", "e", "a", "m">>

STR_AwayTeam ==
    <<"A", "w", "a", "y", " ", "T", "e", "a", "m">>

STR_Home ==
    <<"H", "o", "m", "e">>

STR_Away ==
    <<"A", "w", "a", "y">>

STR_vs ==
    <<" ", "v", "s", " ">>

STR_Competition ==
    <<"C", "o", "m", "p", "e", "t", "i", "t", "i", "o", "n", ":", " ">>

STR_Unknown ==
    <<"U", "n", "k", "n", "o", "w", "n">>

STR_RecentForm ==
    <<"R", "e", "c", "e", "n", "t", " ", "f", "o", "r", "m", " ", "d", "a",
    "t", "a", " ", "i", "f", " ", "a", "v", "a", "i", "l", "a", "b", "l",
    "e">>

STR_FinalScore ==
    <<"F", "i", "n", "a", "l", " ", "s", "c", "o", "r", "e", ":", " ">>

STR_MatchEvents ==
    <<"M", "a", "t", "c", "h", " ", "e", "v", "e", "n", "t", "s", " ", "i",
    "f", " ", "a", "v", "a", "i", "l", "a", "b", "l", "e">>

STR_HomeWin ==
    <<"H", "o", "m", "e", " ", "W", "i", "n">>

STR_Draw ==
    <<"D", "r", "a", "w">>

STR_AwayWin ==
    <<"A", "w", "a", "y", " ", "W", "i", "n">>

STR_ColonSpace ==
    <<":", " ">>

STR_Space ==
    <<" ">>

STR_Dash ==
    <<"-">>

STR_Market1X2 ==
    <<"M", "a", "r", "k", "e", "t", ":", " ", "F", "u", "l", "l", "-", "t",
    "i", "m", "e", " ", "R", "e", "s", "u", "l", "t", " ", "(", "1", "X",
    "2", ")">>

STR_MarketOU ==
    <<"M", "a", "r", "k", "e", "t", ":", " ", "O", "v", "e", "r", "/", "U",
    "n", "d", "e", "r", " ">>

STR_2_5 ==
    <<"2", ".", "5">>

STR_PredictCurrent ==
    <<"P", "a", "n", "e", "l", " ", "P", "r", "e", "d", "i", "c", "t", "i",
    "o", "n", " ", "C", "h", "a", "l", "l", "e", "n", "g", "e", ":", " ",
    "P", "r", "e", "d", "i", "c", "t", " ", "t", "h", "e", " ", "o", "u",
    "t", "c", "o", "m", "e", " ", "o", "f", " ", "t", "h", "e", " ", "c",
    "u", "r", "r", "e", "n", "t", " ", "g", "a", "m", "e">>

STR_PredictNext ==
    <<"P", "a", "n", "e", "l", " ", "P", "r", "e", "d", "i", "c", "t", "i",
    "o", "n", " ", "C", "h", "a", "l", "l", "e", "n", "g", "e", ":", " ",
    "P", "r", "e", "d", "i", "c", "t", " ", "t", "h", "e", " ", "o", "u",
    "t", "c", "o", "m", "e", " ", "o", "f", " ", "t", "h", "e", " ", "n",
    "e", "x", "t", " ", "m", "a", "t", "c", "h", " ", "f", "o", "r", " ",
    "t", "h", "e", " ", "w", "i", "n", "n", "i", "n", "g", " ", "t", "e",
    "a", "m", " ", "(", "e", "x", "t", "r", "a", "c", "t", " ", "f", "r",
    "o", "m", " ", "'", "n", "e", "x", "t", " ", "m", "a", "t", "c", "h",
    "e", "s", " ", "m", "i", "n", "i", "-", "r", "e", "c", "a", "p", "'",
    " ", "d", "a", "t", "a", ")">>

STR_MU ==
    <<"M", "U">>

STR_MC ==
    <<"M", "C">>

STR_PL ==
    <<"P", "L">>

STR_Rate ==
    <<"3", ".", "5", "8">>

STR_365Scores ==
    <<"3", "6", "5", "S", "c", "o", "r", "e", "s">>

STR_SportingBet ==
    <<"S", "p", "o", "r", "t", "i", "n", "g", " ", "b", "e", "t">>

-----------------------------------------------------------------------------
(* Game contexts.  kind is the shape of game_context:                       *)
(*   "empty"  the empty dict {}                                             *)
(*   "dict"   game_context["game"] is a dict (the enriched game data)       *)
(*   "obj"    game_context["game"] is a Game object (what DataEnricher      *)
(*            stores, data_enricher.py lines 151-152 and 235-236)           *)
(* home_team / away_team / competition are Optional names; snapshot holds   *)
(* gt, scrs, winner, stime, is_started; odds is the betting data found in   *)
(* the game (dict keys betting / main_odds, or Game.main_odds).             *)

Digit(n) ==
    CASE n = 0 -> "0" [] n = 1 -> "1" [] n = 2 -> "2" [] n = 3 -> "3"
      [] n = 4 -> "4" [] n = 5 -> "5" [] n = 6 -> "6" [] n = 7 -> "7"
      [] n = 8 -> "8" [] OTHER -> "9"

RECURSIVE NatToStr(_)
NatToStr(n) == IF n < 10 THEN <<Digit(n)>> ELSE NatToStr(n \div 10) \o <<Digit(n % 10)>>

\* str(n) inside an f-string
IntToStr(n) == IF n < 0 THEN <<"-">> \o NatToStr(-n) ELSE NatToStr(n)

NoOdds == [form |-> "none", type |-> AbsentVal, options |-> <<>>,
           bookmaker |-> None, overunder |-> None]

\* The odds dict the orchestrator injects (orchestrator.py lines 209-219).
DictOdds ==
    [form |-> "dict", type |-> IntVal(1),
     options |-> << [name |-> <<"1">>, rate |-> STR_Rate, trend |-> 1],
                    [name |-> <<"2">>, rate |-> STR_Rate, trend |-> 0] >>,
     bookmaker |-> Some(STR_SportingBet), overunder |-> None]

\* A BetLine object (models/game.py lines 89-99): Game.main_odds.
BetLineOdds ==
    [form |-> "BetLine", type |-> IntVal(1),
     options |-> << [name |-> <<"1">>, rate |-> STR_Rate, trend |-> 1] >>,
     bookmaker |-> None, overunder |-> None]

\* The placeholder betting data of lines 1546-1553 and 1640-1647.
PlaceholderOdds ==
    [form |-> "dict", type |-> IntVal(1),
     options |-> << [name |-> STR_HomeWin, rate |-> STR_NA, trend |-> 0],
                    [name |-> STR_Draw, rate |-> STR_NA, trend |-> 0],
                    [name |-> STR_AwayWin, rate |-> STR_NA, trend |-> 0] >>,
     bookmaker |-> None, overunder |-> None]

UpcomingGame ==
    [gt |-> 0, scrs |-> <<>>, winner |-> None, stime |-> None, is_started |-> FALSE]

\* The wall-clock time at which the model starts
Clock0 == 10 * TwoHoursSeconds

\* A game with the status code SHOW_STATUS (3), which no status rule
\* classifies, that started an hour and a half before Clock0.
StartedGame ==
    [gt |-> 3, scrs |-> <<>>, winner |-> None,
     stime |-> Some([fmt |-> "iso_tz", t |-> Clock0 - (3 * TwoHoursSeconds) \div 4]),
     is_started |-> TRUE]

FinishedGame ==
    [gt |-> 1, scrs |-> <<2, 1>>, winner |-> Some(1), stime |-> None, is_started |-> TRUE]

EmptyContext ==
    [kind |-> "empty", home_team |-> None, away_team |-> None, competition |-> None,
     snapshot |-> UpcomingGame, odds |-> NoOdds]

Contexts ==
    {EmptyContext}
    \cup { [kind |-> "dict", home_team |-> Some(STR_MU), away_team |-> Some(STR_MC),
            competition |-> Some(STR_PL), snapshot |-> g, odds |-> o] :
              g \in {UpcomingGame, FinishedGame}, o \in {NoOdds, DictOdds} }
    \cup { [kind |-> "dict", home_team |-> Some(STR_MU), away_team |-> Some(STR_MC),
            competition |-> Some(STR_PL), snapshot |-> StartedGame, odds |-> NoOdds] }
    \cup { [kind |-> "obj", home_team |-> Some(STR_MU), away_team |-> Some(STR_MC),
            competition |-> Some(STR_PL), snapshot |-> g, odds |-> o] :
              g \in {UpcomingGame, FinishedGame}, o \in {NoOdds, BetLineOdds} }

\* bool(game_context)
ContextTruthy(ctx) == ctx.kind # "empty"

NameOr(optName, default) == IF optName = None THEN default ELSE optName[1]

\* Game.home_score / Game.away_score (models/game.py lines 232-240), and
\* final_score["home"] / ["away"] of the enriched dict (data_enricher.py
\* lines 407-410), 0 when the dict has no final_score
HomeScore(ctx) == IF ctx.snapshot.scrs # <<>> THEN ctx.snapshot.scrs[1] ELSE 0

AwayScore(ctx) == IF Len(ctx.snapshot.scrs) > 1 THEN ctx.snapshot.scrs[2] ELSE 0

-----------------------------------------------------------------------------
(* services/job_store.py: the podcast cache of JobStore                      *)

CacheGames == {1, 2}

CachedPodcast(generated_at, expires_at) ==
    [generated_at |-> generated_at, expires_at |-> expires_at]

\* CachedPodcast.is_expired (lines 67-70)
is_expired(cached, t) == t > cached.expires_at

\* What get_cached_podcast(game_id) returns (lines 211-218)
get_cached_podcast(cache, t, game_id) ==
    IF cache[game_id] # None /\ ~is_expired(cache[game_id][1], t)
    THEN cache[game_id]
    ELSE None

\* What get_all_cached_games() returns (lines 222-226), as a set
get_all_cached_games(cache, t) ==
    {gid \in CacheGames : cache[gid] # None /\ cache[gid][1].expires_at > t}

-----------------------------------------------------------------------------
(* services/job_store.py: job tracking                                       *)

JobIds == 1..MaxJobs

\* JobStatus (lines 13-18)
PENDING == "pending"
PROCESSING == "processing"
COMPLETED == "completed"
FAILED == "failed"

\* PodcastJob as create_job builds it (lines 99-106)
PodcastJob(game_id) ==
    [game_id |-> game_id, status |-> PENDING, audio_url |-> None, error_message |-> None]

\* update_job (lines 112-150): an absent job is left absent, a field passed as
\* None keeps its value.
update_job(js, job_id, new_status, audio_url, error_message) ==
    IF js[job_id] = None THEN js
    ELSE LET job == js[job_id][1]
         IN  [js EXCEPT ![job_id] =
                Some([game_id |-> job.game_id,
                      status |-> IF new_status # None THEN new_status[1] ELSE job.status,
                      audio_url |-> IF audio_url # None THEN audio_url ELSE job.audio_url,
                      error_message |-> IF error_message # None THEN error_message
                                        ELSE job.error_message])]

-----------------------------------------------------------------------------
(* LineupAgent._filter_context_by_status: objects are held by reference      *)

CallIds == 1..MaxCalls

\* A reference names its owner (0: the caller's game_context, p: the copy made
\* by invocation p) and the place of the object in the context.
Refs == (0..MaxCalls) \X {"game", "games0"}

\* A dict is the set of its keys; a Game object has no keys to pop.
FreeCell == [t |-> "free", keys |-> {}]

ObjCell == [t |-> "obj", keys |-> {}]

DictCell(keys) == [t |-> "dict", keys |-> keys]

DictKeys == {"final_score", "actual_play_time", "pre_game_stats", "home_team"}

\* Lines 1434-1441 and 1445-1447
PoppedFromGame(st) ==
    IF st = PRE_MATCH
    THEN {"final_score", "winner", "events", "statistics", "top_performers",
          "actual_play_time", "betting_result", "detailed_statistics"}
    ELSE {"pre_game_stats", "lineups_status"}

\* Lines 1455-1459 and 1461-1462
PoppedFromGames(st) ==
    IF st = PRE_MATCH
    THEN {"final_score", "winner", "events", "statistics", "top_performers"}
    ELSE {"pre_game_stats", "lineups_status"}

\* The context as a dict of references: "game" when present, the list "games".
ContextOf(h, owner) ==
    [game |-> IF h[<<owner, "game">>].t = "free" THEN None ELSE Some(<<owner, "game">>),
     games |-> IF h[<<owner, "games0">>].t = "free" THEN <<>> ELSE << <<owner, "games0">> >>]

RefsOf(ctx) == {ctx.game[k] : k \in DOMAIN ctx.game} \cup {ctx.games[k] : k \in DOMAIN ctx.games}

\* A copy that shares the nested objects with the original
deepcopy_ref_Shallow(r, p) == r

\* copy.deepcopy: every nested object is copied to a reference of its own
deepcopy_ref(r, p) == <<p, r[2]>>

\* bool() of the object behind a reference: a dict without keys is falsy
Truthy(h, r) == h[r].t = "obj" \/ (h[r].t = "dict" /\ h[r].keys # {})

Pop(h, r, keys) ==
    IF h[r].t = "dict" THEN [h EXCEPT ![r] = DictCell(h[r].keys \ keys)] ELSE h

RECURSIVE PopAll(_, _, _)
PopAll(h, rs, keys) ==
    IF rs = <<>> THEN h ELSE PopAll(Pop(h, Head(rs), keys), Tail(rs), keys)

\* The heap after _filter_context_by_status(game_context, status) of
\* invocation p, and the context it returns.
filtered_context(h, p) ==
    LET ctx == ContextOf(h, 0)
    IN  [game |-> [k \in DOMAIN ctx.game |-> deepcopy_ref(ctx.game[k], p)],
         games |-> [k \in DOMAIN ctx.games |-> deepcopy_ref(ctx.games[k], p)]]

filter_context_by_status(h, p, st) ==
    LET ctx == ContextOf(h, 0)
        filtered == filtered_context(h, p)
        copied == [r \in Refs |->
                     IF \E r0 \in RefsOf(ctx) : deepcopy_ref(r0, p) = r
                     THEN h[CHOOSE r0 \in RefsOf(ctx) : deepcopy_ref(r0, p) = r]
                     ELSE h[r]]
        \* lines 1426-1428
        game_obj_or_dict ==
            IF filtered.game # None /\ Truthy(copied, filtered.game[1]) THEN filtered.game
            ELSE IF filtered.games # <<>> THEN Some(filtered.games[1])
            ELSE None
        after_game == IF game_obj_or_dict = None THEN copied
                      ELSE Pop(copied, game_obj_or_dict[1], PoppedFromGame(st))
    IN  PopAll(after_game, filtered.games, PoppedFromGames(st))

IdleCall == [op |-> "none", pc |-> "idle", status |-> PRE_MATCH, filtered |-> None]

-----------------------------------------------------------------------------
(* LineupAgent._create_fallback_prioritization *)

Candidate(topic, priority, suggested, key_facts, tone_level, source_refs, cue) ==
    [topic |-> topic, priority |-> IntVal(priority),
     suggested_duration_seconds |-> suggested, key_facts |-> key_facts,
     source_refs |-> source_refs, tone_level |-> tone_level, transition_cue |-> cue]

\* No fallback candidates at all
FallbackSegments_Empty(ctx, st) == <<>>

FallbackSegments(ctx, st) ==
    LET home_team == NameOr(ctx.home_team, STR_HomeTeam)
        away_team == NameOr(ctx.away_team, STR_AwayTeam)
        \* game_data is {} for a Game object: competition is then 'Unknown'
        competition == IF ctx.kind = "dict" THEN NameOr(ctx.competition, STR_Unknown)
                       ELSE STR_Unknown
        home_score == IntToStr(HomeScore(ctx))
        away_score == IntToStr(AwayScore(ctx))
    IN  IF st = PRE_MATCH
        THEN << Candidate(Topic("{} vs {}: What's at Stake", <<home_team, away_team>>),
                          80, 60,
                          << home_team \o STR_vs \o away_team,
                             STR_Competition \o competition >>,
                          4, <<"game.home_team", "game.away_team", "game.competition">>,
                          EmptyCue),
                Candidate(Topic("Recent Form & Head-to-Head Analysis", <<>>),
                          70, 45, <<STR_RecentForm>>,
                          2, <<"form", "standings">>,
                          GivenCue("Now let's examine recent form")) >>
        ELSE << Candidate(Topic("{} {}-{} {}: The Final Result",
                                <<home_team, home_score, away_score, away_team>>),
                          90, 90,
                          << STR_FinalScore \o home_team \o STR_Space \o home_score
                             \o STR_Dash \o away_score \o STR_Space \o away_team >>,
                          5, <<"final_score", "winner">>,
                          EmptyCue),
                Candidate(Topic("Key Match Events: Goals & Decisive Moments", <<>>),
                          85, 60, <<STR_MatchEvents>>,
                          4, <<"events">>,
                          GivenCue("Let's break down the key moments")) >>

create_fallback_prioritization(ctx, st) ==
    [priority_stories |-> <<>>,
     segment_suggestions |-> FallbackSegments(ctx, st),
     explosive_quotes |-> <<>>]

-----------------------------------------------------------------------------
(* LineupAgent._create_default_segments *)

\* int(total_seconds * 0.15) and the like, with the share in percent
Share(total_seconds, percent) == TruncDiv(total_seconds * percent, 100)

DefaultSegments(ctx, st, total_seconds) ==
    LET home_team == NameOr(ctx.home_team, STR_HomeTeam)
        away_team == NameOr(ctx.away_team, STR_AwayTeam)
        home_score == IntToStr(HomeScore(ctx))
        away_score == IntToStr(AwayScore(ctx))
    IN  IF st = PRE_MATCH
        THEN << Candidate(Topic("The {} vs {} Showdown: What's at Stake",
                                <<home_team, away_team>>),
                          80, Share(total_seconds, 15), <<>>, 4,
                          <<"game.home_team", "game.away_team", "game.competition">>,
                          EmptyCue),
                Candidate(Topic("Recent Form & Head-to-Head: The Story So Far", <<>>),
                          75, Share(total_seconds, 25), <<>>, 2,
                          <<"standings", "form">>,
                          GivenCue("Now let's look at how these teams have been performing")),
                Candidate(Topic("Team News: Injuries, Suspensions & Probable Lineups", <<>>),
                          70, Share(total_seconds, 25), <<>>, 3,
                          <<"lineups", "injuries">>,
                          GivenCue("Turning to team news and availability")),
                Candidate(Topic("Tactical Preview: Formations & Key Matchups", <<>>),
                          65, Share(total_seconds, 20), <<>>, 2,
                          <<"lineups.formation", "pre_game_stats">>,
                          GivenCue("Let's break down the tactical battle")),
                Candidate(Topic("The Betting Angle: Odds & Predictions", <<>>),
                          60, Share(total_seconds, 10), <<>>, 3,
                          <<"betting">>,
                          GivenCue("Finally, what do the bookmakers think?")) >>
        ELSE << Candidate(Topic("{} {}-{} {}: The Final Verdict",
                                <<home_team, home_score, away_score, away_team>>),
                          90, Share(total_seconds, 20), <<>>, 5,
                          <<"final_score", "winner">>,
                          EmptyCue),
                Candidate(Topic("The Decisive Moments: Goals, Cards & Game-Changing Events", <<>>),
                          85, Share(total_seconds, 30), <<>>, 4,
                          <<"events">>,
                          GivenCue("Let's relive the key moments that shaped this match")),
                Candidate(Topic("By the Numbers: Possession, Shots & Statistical Dominance", <<>>),
                          75, Share(total_seconds, 25), <<>>, 2,
                          <<"statistics">>,
                          GivenCue("Now let's analyze the numbers")),
                Candidate(Topic("Man of the Match: {}'s Standout Performance",
                                <<<<"K", "e", "y", " ", "P", "l", "a", "y", "e", "r">>>>),
                          70, Share(total_seconds, 15), <<>>, 3,
                          <<"top_performers">>,
                          GivenCue("Turning to individual performances")),
                Candidate(Topic("League Table Impact: How This Result Changes Everything", <<>>),
                          65, Share(total_seconds, 10), <<>>, 2,
                          <<"standings">>,
                          GivenCue("Finally, what does this mean for the league?")) >>

\* Lines 1036-1041 call game_data.get on game_context["game"]: a Game object
\* has no get, and the call raises AttributeError.
create_default_segments(st, total_seconds, ctx) ==
    IF ctx.kind = "obj" THEN Raised("AttributeError")
    ELSE Ok(DefaultSegments(ctx, st, total_seconds))

-----------------------------------------------------------------------------
(* PodcastSegment and its construction *)

\* int(duration * WORDS_PER_SECOND), WORDS_PER_SECOND = 2.5
WordCount(duration) == TruncDiv(duration * WORDS_PER_SECOND_X2, 2)

tone_level_to_enum(tone_level) ==
    IF tone_level <= 1 THEN "analytical"
    ELSE IF tone_level = 2 THEN "informative"
    ELSE IF tone_level = 3 THEN "conversational"
    ELSE IF tone_level = 4 THEN "excited"
    ELSE "dramatic"

PodcastSegment(topic, key_data_points, tone_level, tone, allocated_time, estimated_word_count, source_data_refs, transition_cue) ==
    [topic |-> topic, key_data_points |-> key_data_points, tone_level |-> tone_level,
     tone |-> tone, allocated_time |-> allocated_time,
     estimated_word_count |-> estimated_word_count,
     source_data_refs |-> source_data_refs, transition_cue |-> transition_cue]

\* Field(ge=1, le=5) of PodcastSegment.tone_level: pydantic raises
\* ValidationError when the constraint fails.
ToneLevelValid(tone_level) == tone_level >= 1 /\ tone_level <= 5

-----------------------------------------------------------------------------
(* Betting data lookup shared by _create_final_ticket_segment (lines        *)
(* 1519-1553) and _extract_betting_corner_config (lines 1616-1647)          *)

BettingData(ctx) == IF ctx.odds.form = "none" THEN PlaceholderOdds ELSE ctx.odds

\* The arrows of the source, written in ASCII: up, down, level.
TrendText(trend) == IF trend = 1 THEN "^" ELSE IF trend = -1 THEN "v" ELSE ">"

RECURSIVE OptionPoints(_)
OptionPoints(options) ==
    IF options = <<>> THEN <<>>
    ELSE LET option == Head(options)
         IN  (IF option.name # <<>> /\ option.rate # <<>>
              THEN << option.name \o STR_ColonSpace \o option.rate \o STR_Space
                      \o <<TrendText(option.trend)>> >>
              ELSE <<>>)
             \o OptionPoints(Tail(options))

MarketPoints(betting_data) ==
    IF betting_data.type.t = "int" /\ betting_data.type.v # 0
    THEN IF betting_data.type.v = 1 THEN <<STR_Market1X2>>
         ELSE IF betting_data.type.v = 2
              THEN << STR_MarketOU \o NameOr(betting_data.overunder, STR_2_5) >>
              ELSE <<>>
    ELSE <<>>

-----------------------------------------------------------------------------
(* LineupAgent._create_final_ticket_segment *)

TicketDuration(available_time) == Min(Max(30, available_time \div 8), 45)

\* Returns None (<<>>) or a one-element sequence holding the segment.
create_final_ticket_segment(st, ctx, available_time) ==
    IF ~ContextTruthy(ctx) THEN None
    ELSE LET betting_data == BettingData(ctx)
             duration == TicketDuration(available_time)
             key_points ==
                 (IF betting_data.form = "dict"
                  THEN OptionPoints(SubSeq(betting_data.options, 1,
                                           Min(3, Len(betting_data.options))))
                       \o MarketPoints(betting_data)
                  ELSE <<>>)
                 \o (IF st = PRE_MATCH THEN <<STR_PredictCurrent>>
                     ELSE <<STR_PredictNext>>)
         IN  Some(PodcastSegment(
                 Topic("The Final Ticket", <<>>), key_points, TicketToneLevel,
                 "conversational", duration, WordCount(duration),
                 <<"betting", "main_odds">>,
                 GivenCue("Now let's talk about where the smart money is going...")))

-----------------------------------------------------------------------------
(* LineupAgent._extract_betting_corner_config *)

RECURSIVE FeaturedOdds(_)
FeaturedOdds(options) ==
    IF options = <<>> THEN <<>>
    ELSE LET option == Head(options)
         IN  (IF option.name # <<>> /\ option.rate # <<>>
              THEN << [name |-> option.name, current |-> option.rate,
                       original |-> option.rate, trend |-> TrendText(option.trend)] >>
              ELSE <<>>)
             \o FeaturedOdds(Tail(options))

TargetMarket(betting_data) ==
    IF betting_data.type.t = "int" /\ betting_data.type.v = 1
    THEN Topic("Full-time Result", <<>>)
    ELSE IF betting_data.type.t = "int" /\ betting_data.type.v = 2
         THEN Topic("Over/Under {}", <<NameOr(betting_data.overunder, STR_2_5)>>)
         ELSE Topic("Full-time Result", <<>>)

\* Lines 1686-1753.  The contexts of the model hold no head_to_head, form or
\* next-match data.  For a dict, `get("winner") or get("Winner")` turns a
\* winner of 0 into None.
PredictionContext(ctx, st) ==
    IF st = PRE_MATCH THEN "Based on available match data"
    ELSE LET w == ctx.snapshot.winner
             winner == IF ctx.kind = "obj" THEN w
                       ELSE IF ctx.kind = "dict" /\ w # None /\ w[1] # 0 THEN w
                       ELSE None
         IN  IF winner # None /\ winner[1] >= 0
             THEN "Based on match result and upcoming fixture analysis for the winning team"
             ELSE "Based on match performance and next match preview"

\* Line 1657 calls betting_data.get without the isinstance guard of line 1651:
\* for a BetLine object the call raises AttributeError.
extract_betting_corner_config(ctx, st) ==
    LET betting_data == BettingData(ctx)
    IN  IF betting_data.form = "BetLine" THEN Raised("AttributeError")
        ELSE Ok([bookmaker_name |-> NameOr(betting_data.bookmaker, STR_365Scores),
                 target_market |-> TargetMarket(betting_data),
                 featured_odds |-> FeaturedOdds(SubSeq(betting_data.options, 1,
                                                Min(3, Len(betting_data.options)))),
                 prediction_context |-> PredictionContext(ctx, st)])

-----------------------------------------------------------------------------
(* LineupAgent._generate_title and LineupAgent._calculate_priority_score *)

\* priority_stories is a sequence of [score, story]; story "" when absent.
generate_title(ctx, st, data) ==
    LET home_team == NameOr(ctx.home_team, STR_Home)
        away_team == NameOr(ctx.away_team, STR_Away)
        competition == NameOr(ctx.competition, <<>>)
        stories == data.priority_stories
    IN  IF stories # <<>> /\ stories[1].score > 80 /\ stories[1].story # ""
        THEN [fmt |-> "{} vs {}: {}", args |-> <<home_team, away_team>>,
              story |-> stories[1].story]
        ELSE IF st = PRE_MATCH
             THEN [fmt |-> "{} vs {} - {} Preview",
                   args |-> <<home_team, away_team, competition>>, story |-> ""]
             ELSE [fmt |-> "{} {}-{} {} - {} Recap",
                   args |-> <<home_team, IntToStr(HomeScore(ctx)),
                              IntToStr(AwayScore(ctx)), away_team, competition>>,
                   story |-> ""]

RECURSIVE SumScores(_)
SumScores(stories) ==
    IF stories = <<>> THEN 0 ELSE Head(stories).score + SumScores(Tail(stories))

\* The score in tenths: round(avg_score, 1) * 10.  With at most three integer
\* scores the average never lies halfway between two tenths.
calculate_priority_score(data) ==
    IF data.priority_stories = <<>> THEN 500
    ELSE LET top == SubSeq(data.priority_stories, 1, Min(3, Len(data.priority_stories)))
             avg_x10_num == 10 * SumScores(top)
             boosted_num == IF data.explosive_quotes # <<>>
                            THEN Min(1000 * Len(top), avg_x10_num + 100 * Len(top))
                            ELSE avg_x10_num
         IN  (2 * boosted_num + Len(top)) \div (2 * Len(top))

-----------------------------------------------------------------------------
(* LineupAgent._allocate_time *)

\* Lines 887-891
FilterKeyFacts(key_facts) == SelectSeq(key_facts, LAMBDA fact : ~IsPlaceholder(fact))

\* Lines 835-837.  sum() raises TypeError on a priority that is a string.
RECURSIVE SumPriorities(_)
SumPriorities(segments_data) ==
    IF segments_data = <<>> THEN 0
    ELSE GetInt(Head(segments_data).priority, DefaultPriority)
         + SumPriorities(Tail(segments_data))

TotalPriority(segments_data) ==
    IF SumPriorities(segments_data) = 0 THEN Len(segments_data) * 50
    ELSE SumPriorities(segments_data)

\* Lines 862-873: the duration of element i (1-based) of segments_data.
SegmentDuration(segments_data, i, total_priority, available_time, allocated_time) ==
    LET seg_data == segments_data[i]
        priority == GetInt(seg_data.priority, DefaultPriority)
        suggested_duration == seg_data.suggested_duration_seconds
        proportional_time == TruncDiv(priority * available_time, total_priority)
        duration ==
            IF i < Len(segments_data)
            THEN Min(Max(proportional_time, suggested_duration \div 2),
                     available_time - allocated_time)
            ELSE available_time - allocated_time
    IN  Max(duration, MinSegmentSeconds)

\* Lines 849-906: the loop from element i on.  Returns Ok(segments) or the
\* ValidationError of a PodcastSegment whose tone_level is outside 1..5.
RECURSIVE AllocLoop(_, _, _, _, _, _)
AllocLoop(segments_data, i, total_priority, available_time, allocated_segments, allocated_time) ==
    IF i > Len(segments_data) THEN Ok(allocated_segments)
    ELSE LET seg_data == segments_data[i]
             key_facts == seg_data.key_facts
         IN  IF ~has_available_data(key_facts, seg_data)
             THEN AllocLoop(segments_data, i + 1, total_priority, available_time,
                            allocated_segments, allocated_time)
             ELSE LET duration == SegmentDuration(segments_data, i, total_priority,
                                                  available_time, allocated_time)
                      tone_level == seg_data.tone_level
                      transition_cue == IF i > 1 THEN seg_data.transition_cue
                                        ELSE EmptyCue
                      segment == PodcastSegment(
                          seg_data.topic, FilterKeyFacts(key_facts), tone_level,
                          tone_level_to_enum(tone_level), duration,
                          WordCount(duration), seg_data.source_refs, transition_cue)
                  IN  IF ~ToneLevelValid(tone_level) THEN Raised("ValidationError")
                      ELSE AllocLoop(segments_data, i + 1, total_priority,
                                     available_time,
                                     Append(allocated_segments, segment),
                                     allocated_time + duration)

\* Lines 909-918
IntroSegment ==
    PodcastSegment(Topic("Introduction", <<>>), <<>>, IntroToneLevel, "excited",
                   intro_outro_time \div 2, WordCount(intro_outro_time \div 2),
                   <<>>, EmptyCue)

\* Lines 920-929
OutroSegment ==
    PodcastSegment(Topic("Outro", <<>>), <<>>, OutroToneLevel, "conversational",
                   intro_outro_time \div 2, WordCount(intro_outro_time \div 2),
                   <<>>, EmptyCue)

\* Lines 940-944: the ticket forced to its reserved time.
ReservedTicket(ticket) ==
    IF ticket = None THEN <<>>
    ELSE << [ticket[1] EXCEPT !.allocated_time = final_ticket_time,
                              !.estimated_word_count = WordCount(final_ticket_time)] >>

Assemble_TicketLast(content, ticket) ==
    <<IntroSegment>> \o content \o <<OutroSegment>> \o ReservedTicket(ticket)

\* Lines 931-947: intro first, then the content, the ticket, the outro.
Assemble(content, ticket) ==
    <<IntroSegment>> \o content \o ReservedTicket(ticket) \o <<OutroSegment>>

RECURSIVE TotalAllocated(_)
TotalAllocated(segments) ==
    IF segments = <<>> THEN 0
    ELSE Head(segments).allocated_time + TotalAllocated(Tail(segments))

Reconcile_Skip(allocated_segments, total_seconds) == allocated_segments

\* Lines 949-958: the difference goes to the last segment.
Reconcile(allocated_segments, total_seconds) ==
    LET total_allocated == TotalAllocated(allocated_segments)
        n == Len(allocated_segments)
    IN  IF total_allocated # total_seconds /\ n > 0
        THEN LET difference == total_seconds - total_allocated
                 adjusted == allocated_segments[n].allocated_time + difference
             IN  [allocated_segments EXCEPT
                     ![n].allocated_time = adjusted,
                     ![n].estimated_word_count = WordCount(adjusted)]
        ELSE allocated_segments

\* Returns Ok(list of PodcastSegment) or the exception raised.
allocate_time(data, minutes, st, ctx) ==
    LET total_seconds == minutes * 60
        suggested == data.segment_suggestions
        defaults == IF suggested = <<>>
                    THEN create_default_segments(st, total_seconds, ctx)
                    ELSE Ok(suggested)
    IN  IF IsRaised(defaults) THEN defaults
        ELSE LET segments_data == enforce_tone_transitions(defaults.value)
             IN  IF \E i \in 1..Len(segments_data) : segments_data[i].priority.t = "str"
                 THEN Raised("TypeError")
                 ELSE LET total_priority == TotalPriority(segments_data)
                          available_time == total_seconds - intro_outro_time
                                            - final_ticket_time
                          content == AllocLoop(segments_data, 1, total_priority,
                                               available_time, <<>>, 0)
                          ticket == create_final_ticket_segment(st, ctx, final_ticket_time)
                      IN  IF IsRaised(content) THEN content
                          ELSE Ok(Reconcile(Assemble(content.value, ticket),
                                            total_seconds))

-----------------------------------------------------------------------------
(* LineupAgent.create_lineup *)

NoData == [priority_stories |-> <<>>, segment_suggestions |-> <<>>,
           explosive_quotes |-> <<>>]

NoResult == [raised |-> "pending", value |-> <<>>]

\* Lines 357-417: the Game the status is detected from.  An empty context
\* yields no game and the status defaults to PRE_MATCH.
DetectFromContext(ctx, clock) ==
    IF ctx.kind = "empty" THEN PRE_MATCH ELSE detect_status(ctx.snapshot, clock)

\* Lines 424-444, once prioritized_data is known.
PlanLineup(ctx, minutes, st, data) ==
    LET segments == allocate_time(data, minutes, st, ctx)
        betting_config == extract_betting_corner_config(ctx, st)
    IN  IF IsRaised(segments) THEN segments
        ELSE IF IsRaised(betting_config) THEN betting_config
        ELSE Ok([episode_title |-> generate_title(ctx, st, data),
                 status |-> st,
                 total_duration_minutes |-> minutes,
                 segments |-> segments.value,
                 priority_score |-> calculate_priority_score(data),
                 betting_corner_config |-> betting_config.value])

Minutes == (0..MaxMinutes) \cup {DefaultMinutes}

OracleReplies == SeqsUpTo(OracleCandidates, MaxCands)

\* create_lineup is called: lines 342-419 run up to the Claude call.
CallCreateLineup ==
    /\ pc = "idle"
    /\ \E ctx \in Contexts, minutes \in Minutes :
          /\ game_context' = ctx
          /\ total_duration_minutes' = minutes
          /\ status' = DetectFromContext(ctx, now)
    /\ pc' = "awaiting_oracle"
    /\ UNCHANGED <<oracle, prioritized_data, result>>
    /\ UNCHANGED statusVars
    /\ UNCHANGED routerVars
    /\ UNCHANGED smootherVars
    /\ UNCHANGED scoreVars
    /\ UNCHANGED frameVars
    /\ UNCHANGED retryVars
    /\ UNCHANGED cacheVars
    /\ UNCHANGED jobVars

\* The Claude call returns text holding a JSON object (lines 655-678);
\* create_lineup then runs to its end.
OracleReturns ==
    /\ pc = "awaiting_oracle"
    /\ \E suggestions \in OracleReplies :
          LET data == [priority_stories |-> <<>>,
                       segment_suggestions |-> suggestions,
                       explosive_quotes |-> <<>>]
          IN  /\ prioritized_data' = data
              /\ result' = PlanLineup(game_context, total_duration_minutes, status, data)
    /\ oracle' = "returned"
    /\ pc' = "done"
    /\ UNCHANGED <<game_context, total_duration_minutes, status>>
    /\ UNCHANGED statusVars
    /\ UNCHANGED routerVars
    /\ UNCHANGED smootherVars
    /\ UNCHANGED scoreVars
    /\ UNCHANGED frameVars
    /\ UNCHANGED retryVars
    /\ UNCHANGED cacheVars
    /\ UNCHANGED jobVars

\* The Claude call raises (APIError, a timeout, any Exception) or returns text
\* that json.loads rejects (lines 680-690); create_lineup then runs to its end.
OracleFails ==
    /\ pc = "awaiting_oracle"
    /\ \E failure \in {"APIError", "JSONDecodeError", "Exception"} :
          oracle' = failure
    /\ LET data == create_fallback_prioritization(game_context, status)
       IN  /\ prioritized_data' = data
           /\ result' = PlanLineup(game_context, total_duration_minutes, status, data)
    /\ pc' = "done"
    /\ UNCHANGED <<game_context, total_duration_minutes, status>>
    /\ UNCHANGED statusVars
    /\ UNCHANGED routerVars
    /\ UNCHANGED smootherVars
    /\ UNCHANGED scoreVars
    /\ UNCHANGED frameVars
    /\ UNCHANGED retryVars
    /\ UNCHANGED cacheVars
    /\ UNCHANGED jobVars

Init ==
    /\ pc = "idle"
    /\ game_context = EmptyContext
    /\ total_duration_minutes = 0
    /\ status = PRE_MATCH
    /\ oracle = "pending"
    /\ prioritized_data = NoData
    /\ result = NoResult
    /\ game = UpcomingGame
    /\ now = Clock0
    /\ detected = "none"
    /\ games = <<>>
    /\ mode = "none"
    /\ smoother_arg = <<>>
    /\ smoother_ret = NoResult
    /\ score_arg = NoData
    /\ score_ret = NoResult
    /\ heap = [r \in Refs |-> FreeCell]
    /\ calls = [p \in CallIds |-> IdleCall]
    /\ retry_pc = "idle"
    /\ max_attempts = 1
    /\ exceptions = {}
    /\ attempt = 0
    /\ delay = initial_delay
    /\ last_exception = None
    /\ history = <<>>
    /\ sleeps = <<>>
    /\ retry_ret = NoResult
    /\ podcast_cache = [g \in CacheGames |-> None]
    /\ cache_now = 0
    /\ cache_ret = NoResult
    /\ jobs = [j \in JobIds |-> None]
    /\ tasks = [j \in JobIds |-> "none"]
    /\ job_ret = NoResult

Next == CallCreateLineup \/ OracleReturns \/ OracleFails

Spec == Init /\ [][Next]_vars

-----------------------------------------------------------------------------
(* create_lineup called again with the same arguments while Claude is down *)

\* An hour later the caller invokes create_lineup again with the same context
\* and duration (lines 342-419); the outcome of the previous call stays in
\* oracle and result until the new call ends.
Reinvoke ==
    /\ pc = "done"
    /\ now < Clock0 + MaxTicks * (TwoHoursSeconds \div 2)
    /\ now' = now + TwoHoursSeconds \div 2
    /\ status' = DetectFromContext(game_context, now')
    /\ pc' = "awaiting_oracle"
    /\ UNCHANGED <<game_context, total_duration_minutes, oracle, prioritized_data, result>>
    /\ UNCHANGED <<game, detected>>
    /\ UNCHANGED routerVars
    /\ UNCHANGED smootherVars
    /\ UNCHANGED scoreVars
    /\ UNCHANGED frameVars
    /\ UNCHANGED retryVars
    /\ UNCHANGED cacheVars
    /\ UNCHANGED jobVars

NextRepeat == CallCreateLineup \/ OracleFails \/ Reinvoke

SpecRepeat == Init /\ [][NextRepeat]_vars

-----------------------------------------------------------------------------
(* detect_status on its own: a Game drawn from the feed's value ranges, the *)
(* wall clock advancing between calls                                       *)

StatusCodes == {-1, 0, 1, 2, 3, 90, 99, 163, 199, 200, 999}

OneHourSeconds == TwoHoursSeconds \div 2

\* Three hours before, one hour before and half an hour after Clock0
StartTimes == {Clock0 - 3 * OneHourSeconds, Clock0 - OneHourSeconds,
               Clock0 + OneHourSeconds \div 2}

Stimes ==
    {None, Some([fmt |-> "garbage", t |-> 0])}
    \cup { Some([fmt |-> f, t |-> t]) :
             f \in {"iso_tz", "iso_naive", "dmy", "dmy_slash"}, t \in StartTimes }

Games ==
    [gt : StatusCodes,
     scrs : SeqsUpTo((-1)..MaxScore, 2),
     winner : {None, Some(-1), Some(0)},
     stime : Stimes,
     is_started : BOOLEAN]

InitStatus ==
    /\ pc = "idle"
    /\ game_context = EmptyContext
    /\ total_duration_minutes = 0
    /\ status = PRE_MATCH
    /\ oracle = "pending"
    /\ prioritized_data = NoData
    /\ result = NoResult
    /\ game \in Games
    /\ now = Clock0
    /\ detected = "none"
    /\ games = <<>>
    /\ mode = "none"
    /\ smoother_arg = <<>>
    /\ smoother_ret = NoResult
    /\ score_arg = NoData
    /\ score_ret = NoResult
    /\ heap = [r \in Refs |-> FreeCell]
    /\ calls = [p \in CallIds |-> IdleCall]
    /\ retry_pc = "idle"
    /\ max_attempts = 1
    /\ exceptions = {}
    /\ attempt = 0
    /\ delay = initial_delay
    /\ last_exception = None
    /\ history = <<>>
    /\ sleeps = <<>>
    /\ retry_ret = NoResult
    /\ podcast_cache = [g \in CacheGames |-> None]
    /\ cache_now = 0
    /\ cache_ret = NoResult
    /\ jobs = [j \in JobIds |-> None]
    /\ tasks = [j \in JobIds |-> "none"]
    /\ job_ret = NoResult

\* detect_status(game) is called at the current wall-clock time.
DetectStatus ==
    /\ detected' = detect_status(game, now)
    /\ UNCHANGED <<game, now>>
    /\ UNCHANGED lineupVars
    /\ UNCHANGED routerVars
    /\ UNCHANGED smootherVars
    /\ UNCHANGED scoreVars
    /\ UNCHANGED frameVars
    /\ UNCHANGED retryVars
    /\ UNCHANGED cacheVars
    /\ UNCHANGED jobVars

\* An hour passes.
Tick ==
    /\ now < Clock0 + MaxTicks * OneHourSeconds
    /\ now' = now + OneHourSeconds
    /\ UNCHANGED <<game, detected>>
    /\ UNCHANGED lineupVars
    /\ UNCHANGED routerVars
    /\ UNCHANGED smootherVars
    /\ UNCHANGED scoreVars
    /\ UNCHANGED frameVars
    /\ UNCHANGED retryVars
    /\ UNCHANGED cacheVars
    /\ UNCHANGED jobVars

NextStatus == DetectStatus \/ Tick

SpecStatus == InitStatus /\ [][NextStatus]_vars

-----------------------------------------------------------------------------
(* ContentRouter.determine_mode, src/src/services/script_engine/content_router.py *)

DAILY_RECAP == "daily_recap"

GAME_SPOTLIGHT_PREGAME == "game_spotlight_pregame"

GAME_SPOTLIGHT_POSTGAME == "game_spotlight_postgame"

\* A router that treats an unknown status code as not started
determine_mode_UnknownIsPregame(gs) ==
    IF gs = <<>> THEN DAILY_RECAP
    ELSE IF Len(gs) > 1 THEN DAILY_RECAP
    ELSE IF is_finished(gs[1].gt) \/ is_live(gs[1].gt) THEN GAME_SPOTLIGHT_POSTGAME
    ELSE GAME_SPOTLIGHT_PREGAME

determine_mode(gs) ==
    IF gs = <<>> THEN DAILY_RECAP
    ELSE IF Len(gs) > 1 THEN DAILY_RECAP
    ELSE LET status_code == gs[1].gt
         IN  IF is_upcoming(status_code) THEN GAME_SPOTLIGHT_PREGAME
             ELSE IF is_finished(status_code) THEN GAME_SPOTLIGHT_POSTGAME
             ELSE IF is_live(status_code) THEN GAME_SPOTLIGHT_POSTGAME
             ELSE GAME_SPOTLIGHT_POSTGAME

\* The games of a selection; determine_mode reads only Game.gt.
RouterGames == [gt : StatusCodes]

InitRouter ==
    /\ pc = "idle"
    /\ game_context = EmptyContext
    /\ total_duration_minutes = 0
    /\ status = PRE_MATCH
    /\ oracle = "pending"
    /\ prioritized_data = NoData
    /\ result = NoResult
    /\ game = UpcomingGame
    /\ now = Clock0
    /\ detected = "none"
    /\ games \in SeqsUpTo(RouterGames, MaxGames)
    /\ mode = "none"
    /\ smoother_arg = <<>>
    /\ smoother_ret = NoResult
    /\ score_arg = NoData
    /\ score_ret = NoResult
    /\ heap = [r \in Refs |-> FreeCell]
    /\ calls = [p \in CallIds |-> IdleCall]
    /\ retry_pc = "idle"
    /\ max_attempts = 1
    /\ exceptions = {}
    /\ attempt = 0
    /\ delay = initial_delay
    /\ last_exception = None
    /\ history = <<>>
    /\ sleeps = <<>>
    /\ retry_ret = NoResult
    /\ podcast_cache = [g \in CacheGames |-> None]
    /\ cache_now = 0
    /\ cache_ret = NoResult
    /\ jobs = [j \in JobIds |-> None]
    /\ tasks = [j \in JobIds |-> "none"]
    /\ job_ret = NoResult

\* determine_mode(games) is called.
DetermineMode ==
    /\ mode' = determine_mode(games)
    /\ UNCHANGED games
    /\ UNCHANGED lineupVars
    /\ UNCHANGED statusVars
    /\ UNCHANGED smootherVars
    /\ UNCHANGED scoreVars
    /\ UNCHANGED frameVars
    /\ UNCHANGED retryVars
    /\ UNCHANGED cacheVars
    /\ UNCHANGED jobVars

NextRouter == DetermineMode

SpecRouter == InitRouter /\ [][NextRouter]_vars

-----------------------------------------------------------------------------
(* _enforce_tone_transitions on its own: a candidate list drawn from the     *)
(* tone levels 1..5 and the out-of-range level 7, with and without a cue     *)

SmootherTones == (1..5) \cup {7}

SmootherCandidates ==
    { Candidate(Topic("oracle topic", <<>>), 80, 0, <<STR_Fact>>, t, <<>>, cue) :
        t \in SmootherTones, cue \in {EmptyCue, GivenCue("cue")} }

InitSmoother ==
    /\ pc = "idle"
    /\ game_context = EmptyContext
    /\ total_duration_minutes = 0
    /\ status = PRE_MATCH
    /\ oracle = "pending"
    /\ prioritized_data = NoData
    /\ result = NoResult
    /\ game = UpcomingGame
    /\ now = Clock0
    /\ detected = "none"
    /\ games = <<>>
    /\ mode = "none"
    /\ smoother_arg \in SeqsUpTo(SmootherCandidates, MaxTones)
    /\ smoother_ret = NoResult
    /\ score_arg = NoData
    /\ score_ret = NoResult
    /\ heap = [r \in Refs |-> FreeCell]
    /\ calls = [p \in CallIds |-> IdleCall]
    /\ retry_pc = "idle"
    /\ max_attempts = 1
    /\ exceptions = {}
    /\ attempt = 0
    /\ delay = initial_delay
    /\ last_exception = None
    /\ history = <<>>
    /\ sleeps = <<>>
    /\ retry_ret = NoResult
    /\ podcast_cache = [g \in CacheGames |-> None]
    /\ cache_now = 0
    /\ cache_ret = NoResult
    /\ jobs = [j \in JobIds |-> None]
    /\ tasks = [j \in JobIds |-> "none"]
    /\ job_ret = NoResult

\* _enforce_tone_transitions(segments_data) is called.
EnforceToneTransitions ==
    /\ smoother_ret' = Ok(enforce_tone_transitions(smoother_arg))
    /\ UNCHANGED smoother_arg
    /\ UNCHANGED lineupVars
    /\ UNCHANGED statusVars
    /\ UNCHANGED routerVars
    /\ UNCHANGED scoreVars
    /\ UNCHANGED frameVars
    /\ UNCHANGED retryVars
    /\ UNCHANGED cacheVars
    /\ UNCHANGED jobVars

NextSmoother == EnforceToneTransitions

SpecSmoother == InitSmoother /\ [][NextSmoother]_vars

-----------------------------------------------------------------------------
(* _calculate_priority_score on its own: the oracle's reply carries priority *)
(* stories, segment candidates and explosive quotes                          *)

StoryScores == {0, 70, 100}

Stories == { [score |-> sc, story |-> ""] : sc \in StoryScores }

ScoreCandidates ==
    { Candidate(Topic("oracle topic", <<>>), p, 0, <<STR_Fact>>, 3, <<>>, EmptyCue) :
        p \in {0, 100} }

InitScore ==
    /\ pc = "idle"
    /\ game_context = EmptyContext
    /\ total_duration_minutes = 0
    /\ status = PRE_MATCH
    /\ oracle = "pending"
    /\ prioritized_data = NoData
    /\ result = NoResult
    /\ game = UpcomingGame
    /\ now = Clock0
    /\ detected = "none"
    /\ games = <<>>
    /\ mode = "none"
    /\ smoother_arg = <<>>
    /\ smoother_ret = NoResult
    /\ score_arg \in [priority_stories : SeqsUpTo(Stories, MaxStories),
                      segment_suggestions : SeqsUpTo(ScoreCandidates, MaxCands),
                      explosive_quotes : {<<>>, <<"quote">>}]
    /\ score_ret = NoResult
    /\ heap = [r \in Refs |-> FreeCell]
    /\ calls = [p \in CallIds |-> IdleCall]
    /\ retry_pc = "idle"
    /\ max_attempts = 1
    /\ exceptions = {}
    /\ attempt = 0
    /\ delay = initial_delay
    /\ last_exception = None
    /\ history = <<>>
    /\ sleeps = <<>>
    /\ retry_ret = NoResult
    /\ podcast_cache = [g \in CacheGames |-> None]
    /\ cache_now = 0
    /\ cache_ret = NoResult
    /\ jobs = [j \in JobIds |-> None]
    /\ tasks = [j \in JobIds |-> "none"]
    /\ job_ret = NoResult

\* _calculate_priority_score(game_context, prioritized_data) is called.
CalculatePriorityScore ==
    /\ score_ret' = Ok(calculate_priority_score(score_arg))
    /\ UNCHANGED score_arg
    /\ UNCHANGED lineupVars
    /\ UNCHANGED statusVars
    /\ UNCHANGED routerVars
    /\ UNCHANGED smootherVars
    /\ UNCHANGED frameVars
    /\ UNCHANGED retryVars
    /\ UNCHANGED cacheVars
    /\ UNCHANGED jobVars

NextScore == CalculatePriorityScore

SpecScore == InitScore /\ [][NextScore]_vars

-----------------------------------------------------------------------------
(* create_lineup and generate_script_prompt invoked on one game_context      *)

CallerCells == {FreeCell, ObjCell} \cup {DictCell(ks) : ks \in SUBSET DictKeys}

InitFrame ==
    /\ pc = "idle"
    /\ game_context = EmptyContext
    /\ total_duration_minutes = 0
    /\ status = PRE_MATCH
    /\ oracle = "pending"
    /\ prioritized_data = NoData
    /\ result = NoResult
    /\ game = UpcomingGame
    /\ now = Clock0
    /\ detected = "none"
    /\ games = <<>>
    /\ mode = "none"
    /\ smoother_arg = <<>>
    /\ smoother_ret = NoResult
    /\ score_arg = NoData
    /\ score_ret = NoResult
    /\ \E g \in CallerCells, g0 \in CallerCells \ {ObjCell} :
          heap = [r \in Refs |-> IF r = <<0, "game">> THEN g
                                 ELSE IF r = <<0, "games0">> THEN g0
                                 ELSE FreeCell]
    /\ calls = [p \in CallIds |-> IdleCall]
    /\ retry_pc = "idle"
    /\ max_attempts = 1
    /\ exceptions = {}
    /\ attempt = 0
    /\ delay = initial_delay
    /\ last_exception = None
    /\ history = <<>>
    /\ sleeps = <<>>
    /\ retry_ret = NoResult
    /\ podcast_cache = [g \in CacheGames |-> None]
    /\ cache_now = 0
    /\ cache_ret = NoResult
    /\ jobs = [j \in JobIds |-> None]
    /\ tasks = [j \in JobIds |-> "none"]
    /\ job_ret = NoResult

\* create_lineup(game_context, ...) up to the await of line 422: the context
\* is read (lines 359-420), nothing is stored into it.
FrameCallCreateLineup(p) ==
    /\ calls[p].pc = "idle"
    /\ calls' = [calls EXCEPT ![p] = [op |-> "create_lineup", pc |-> "awaiting",
                                      status |-> PRE_MATCH, filtered |-> None]]
    /\ UNCHANGED heap
    /\ UNCHANGED lineupVars
    /\ UNCHANGED statusVars
    /\ UNCHANGED routerVars
    /\ UNCHANGED smootherVars
    /\ UNCHANGED scoreVars
    /\ UNCHANGED retryVars
    /\ UNCHANGED cacheVars
    /\ UNCHANGED jobVars

\* create_lineup from line 422 to its return: the lineup is built from reads
\* of the context.
FrameCreateLineupReturns(p) ==
    /\ calls[p].op = "create_lineup"
    /\ calls[p].pc = "awaiting"
    /\ calls' = [calls EXCEPT ![p].pc = "done"]
    /\ UNCHANGED heap
    /\ UNCHANGED lineupVars
    /\ UNCHANGED statusVars
    /\ UNCHANGED routerVars
    /\ UNCHANGED smootherVars
    /\ UNCHANGED scoreVars
    /\ UNCHANGED retryVars
    /\ UNCHANGED cacheVars
    /\ UNCHANGED jobVars

\* generate_script_prompt(lineup, game_context): a synchronous function, the
\* filtered view is built at line 1252 and only read afterwards.
GenerateScriptPrompt(p, st) ==
    /\ calls[p].pc = "idle"
    /\ heap' = filter_context_by_status(heap, p, st)
    /\ calls' = [calls EXCEPT ![p] = [op |-> "generate_script_prompt", pc |-> "done",
                                      status |-> st,
                                      filtered |-> Some(filtered_context(heap, p))]]
    /\ UNCHANGED lineupVars
    /\ UNCHANGED statusVars
    /\ UNCHANGED routerVars
    /\ UNCHANGED smootherVars
    /\ UNCHANGED scoreVars
    /\ UNCHANGED retryVars
    /\ UNCHANGED cacheVars
    /\ UNCHANGED jobVars

NextFrame ==
    \E p \in CallIds :
        \/ FrameCallCreateLineup(p)
        \/ FrameCreateLineupReturns(p)
        \/ \E st \in {PRE_MATCH, POST_MATCH} : GenerateScriptPrompt(p, st)

SpecFrame == InitFrame /\ [][NextFrame]_vars

-----------------------------------------------------------------------------
(* utils/retry.py: with_retry.  async_wrapper and sync_wrapper run the same  *)
(* loop, one awaiting the function and asyncio.sleep, one calling the        *)
(* function and time.sleep                                                   *)

\* The types the wrapped function raises (game_fetcher.py lists the two httpx
\* types)
ExceptionTypes == {"TimeoutException", "HTTPStatusError", "ValueError"}

\* The exception raised by the k-th invocation of the wrapped function
Exc(type, k) == [type |-> type, call |-> k]

\* A sleep after every failed attempt
should_sleep_Always(i, n) == TRUE

\* Line 43 / 69: if attempt < max_attempts - 1
should_sleep(i, n) == i < n - 1

InitRetry ==
    /\ pc = "idle"
    /\ game_context = EmptyContext
    /\ total_duration_minutes = 0
    /\ status = PRE_MATCH
    /\ oracle = "pending"
    /\ prioritized_data = NoData
    /\ result = NoResult
    /\ game = UpcomingGame
    /\ now = Clock0
    /\ detected = "none"
    /\ games = <<>>
    /\ mode = "none"
    /\ smoother_arg = <<>>
    /\ smoother_ret = NoResult
    /\ score_arg = NoData
    /\ score_ret = NoResult
    /\ heap = [r \in Refs |-> FreeCell]
    /\ calls = [p \in CallIds |-> IdleCall]
    /\ retry_pc = "idle"
    /\ max_attempts \in 0..MaxAttempts
    /\ exceptions \in (SUBSET ExceptionTypes) \ {{}}
    /\ attempt = 0
    /\ delay = initial_delay
    /\ last_exception = None
    /\ history = <<>>
    /\ sleeps = <<>>
    /\ retry_ret = NoResult
    /\ podcast_cache = [g \in CacheGames |-> None]
    /\ cache_now = 0
    /\ cache_ret = NoResult
    /\ jobs = [j \in JobIds |-> None]
    /\ tasks = [j \in JobIds |-> "none"]
    /\ job_ret = NoResult

\* The wrapper is called: lines 35-38 / 61-64.  With max_attempts = 0 the
\* loop body never runs and lines 55-57 / 82-84 raise RuntimeError.
CallWrapper ==
    /\ retry_pc = "idle"
    /\ retry_pc' = IF max_attempts > 0 THEN "in_loop" ELSE "done"
    /\ retry_ret' = IF max_attempts > 0 THEN NoResult ELSE Raised("RuntimeError")
    /\ UNCHANGED <<max_attempts, exceptions, attempt, delay, last_exception, history, sleeps>>
    /\ UNCHANGED lineupVars
    /\ UNCHANGED statusVars
    /\ UNCHANGED routerVars
    /\ UNCHANGED smootherVars
    /\ UNCHANGED scoreVars
    /\ UNCHANGED frameVars
    /\ UNCHANGED cacheVars
    /\ UNCHANGED jobVars

\* One iteration in which the function returns: line 40 / 66.
AttemptReturns ==
    /\ retry_pc = "in_loop"
    /\ history' = Append(history, "ok")
    /\ retry_ret' = Ok(Len(history) + 1)
    /\ retry_pc' = "done"
    /\ UNCHANGED <<max_attempts, exceptions, attempt, delay, last_exception, sleeps>>
    /\ UNCHANGED lineupVars
    /\ UNCHANGED statusVars
    /\ UNCHANGED routerVars
    /\ UNCHANGED smootherVars
    /\ UNCHANGED scoreVars
    /\ UNCHANGED frameVars
    /\ UNCHANGED cacheVars
    /\ UNCHANGED jobVars

\* One iteration in which the function raises a listed exception: lines 41-53
\* / 67-80, and lines 55-56 / 82-83 when it was the last iteration.
AttemptFails(type) ==
    /\ retry_pc = "in_loop"
    /\ type \in exceptions
    /\ LET e == Exc(type, Len(history) + 1)
           sleeping == should_sleep(attempt, max_attempts)
           last == attempt + 1 >= max_attempts
       IN  /\ history' = Append(history, type)
           /\ last_exception' = Some(e)
           /\ sleeps' = IF sleeping THEN Append(sleeps, delay) ELSE sleeps
           /\ delay' = IF sleeping THEN delay * backoff_factor ELSE delay
           /\ attempt' = IF last THEN attempt ELSE attempt + 1
           /\ retry_pc' = IF last THEN "done" ELSE "in_loop"
           /\ retry_ret' = IF last THEN [raised |-> "exception", value |-> e] ELSE NoResult
    /\ UNCHANGED <<max_attempts, exceptions>>
    /\ UNCHANGED lineupVars
    /\ UNCHANGED statusVars
    /\ UNCHANGED routerVars
    /\ UNCHANGED smootherVars
    /\ UNCHANGED scoreVars
    /\ UNCHANGED frameVars
    /\ UNCHANGED cacheVars
    /\ UNCHANGED jobVars

\* One iteration in which the function raises an exception that is not
\* listed: it leaves the wrapper at once.
AttemptPropagates(type) ==
    /\ retry_pc = "in_loop"
    /\ type \notin exceptions
    /\ history' = Append(history, type)
    /\ retry_ret' = [raised |-> "exception", value |-> Exc(type, Len(history) + 1)]
    /\ retry_pc' = "done"
    /\ UNCHANGED <<max_attempts, exceptions, attempt, delay, last_exception, sleeps>>
    /\ UNCHANGED lineupVars
    /\ UNCHANGED statusVars
    /\ UNCHANGED routerVars
    /\ UNCHANGED smootherVars
    /\ UNCHANGED scoreVars
    /\ UNCHANGED frameVars
    /\ UNCHANGED cacheVars
    /\ UNCHANGED jobVars

NextRetry ==
    \/ CallWrapper
    \/ AttemptReturns
    \/ \E type \in ExceptionTypes : AttemptFails(type)
    \/ \E type \in ExceptionTypes : AttemptPropagates(type)

SpecRetry == InitRetry /\ [][NextRetry]_vars

-----------------------------------------------------------------------------
(* JobStore: cache_podcast, get_cached_podcast, get_all_cached_games,        *)
(* invalidate_cache, cleanup_expired_cache, and the clock                    *)

\* ttl_hours: None, 0 (falsy, so the default applies) or one hour
TtlHours == {None, Some(0), Some(1)}

InitCache ==
    /\ pc = "idle"
    /\ game_context = EmptyContext
    /\ total_duration_minutes = 0
    /\ status = PRE_MATCH
    /\ oracle = "pending"
    /\ prioritized_data = NoData
    /\ result = NoResult
    /\ game = UpcomingGame
    /\ now = Clock0
    /\ detected = "none"
    /\ games = <<>>
    /\ mode = "none"
    /\ smoother_arg = <<>>
    /\ smoother_ret = NoResult
    /\ score_arg = NoData
    /\ score_ret = NoResult
    /\ heap = [r \in Refs |-> FreeCell]
    /\ calls = [p \in CallIds |-> IdleCall]
    /\ retry_pc = "idle"
    /\ max_attempts = 1
    /\ exceptions = {}
    /\ attempt = 0
    /\ delay = initial_delay
    /\ last_exception = None
    /\ history = <<>>
    /\ sleeps = <<>>
    /\ retry_ret = NoResult
    /\ podcast_cache = [g \in CacheGames |-> None]
    /\ cache_now = 0
    /\ cache_ret = NoResult
    /\ jobs = [j \in JobIds |-> None]
    /\ tasks = [j \in JobIds |-> "none"]
    /\ job_ret = NoResult

\* cache_podcast(game_id, ..., ttl_hours)
CachePodcast(game_id, ttl_hours) ==
    /\ LET ttl == IF ttl_hours # None /\ ttl_hours[1] # 0 THEN ttl_hours[1]
                  ELSE cache_ttl_hours
           cached == CachedPodcast(cache_now, cache_now + ttl)
       IN  /\ podcast_cache' = [podcast_cache EXCEPT ![game_id] = Some(cached)]
           /\ cache_ret' = Ok(Some(cached))
    /\ UNCHANGED cache_now
    /\ UNCHANGED lineupVars
    /\ UNCHANGED statusVars
    /\ UNCHANGED routerVars
    /\ UNCHANGED smootherVars
    /\ UNCHANGED scoreVars
    /\ UNCHANGED frameVars
    /\ UNCHANGED retryVars
    /\ UNCHANGED jobVars

\* get_cached_podcast(game_id): an expired entry is popped
GetCachedPodcast(game_id) ==
    /\ cache_ret' = Ok(get_cached_podcast(podcast_cache, cache_now, game_id))
    /\ podcast_cache' =
          IF podcast_cache[game_id] # None /\ is_expired(podcast_cache[game_id][1], cache_now)
          THEN [podcast_cache EXCEPT ![game_id] = None]
          ELSE podcast_cache
    /\ UNCHANGED cache_now
    /\ UNCHANGED lineupVars
    /\ UNCHANGED statusVars
    /\ UNCHANGED routerVars
    /\ UNCHANGED smootherVars
    /\ UNCHANGED scoreVars
    /\ UNCHANGED frameVars
    /\ UNCHANGED retryVars
    /\ UNCHANGED jobVars

\* get_all_cached_games()
GetAllCachedGames ==
    /\ cache_ret' = Ok(get_all_cached_games(podcast_cache, cache_now))
    /\ UNCHANGED <<podcast_cache, cache_now>>
    /\ UNCHANGED lineupVars
    /\ UNCHANGED statusVars
    /\ UNCHANGED routerVars
    /\ UNCHANGED smootherVars
    /\ UNCHANGED scoreVars
    /\ UNCHANGED frameVars
    /\ UNCHANGED retryVars
    /\ UNCHANGED jobVars

\* invalidate_cache(game_id)
InvalidateCache(game_id) ==
    /\ cache_ret' = Ok(podcast_cache[game_id] # None)
    /\ podcast_cache' = [podcast_cache EXCEPT ![game_id] = None]
    /\ UNCHANGED cache_now
    /\ UNCHANGED lineupVars
    /\ UNCHANGED statusVars
    /\ UNCHANGED routerVars
    /\ UNCHANGED smootherVars
    /\ UNCHANGED scoreVars
    /\ UNCHANGED frameVars
    /\ UNCHANGED retryVars
    /\ UNCHANGED jobVars

\* cleanup_expired_cache(): entries with expires_at < now are deleted
CleanupExpiredCache ==
    /\ LET expired == {gid \in CacheGames :
                          podcast_cache[gid] # None
                          /\ podcast_cache[gid][1].expires_at < cache_now}
       IN  /\ podcast_cache' = [gid \in CacheGames |->
                                   IF gid \in expired THEN None ELSE podcast_cache[gid]]
           /\ cache_ret' = Ok(Cardinality(expired))
    /\ UNCHANGED cache_now
    /\ UNCHANGED lineupVars
    /\ UNCHANGED statusVars
    /\ UNCHANGED routerVars
    /\ UNCHANGED smootherVars
    /\ UNCHANGED scoreVars
    /\ UNCHANGED frameVars
    /\ UNCHANGED retryVars
    /\ UNCHANGED jobVars

\* An hour passes.
AdvanceClock ==
    /\ cache_now < MaxHours
    /\ cache_now' = cache_now + 1
    /\ UNCHANGED <<podcast_cache, cache_ret>>
    /\ UNCHANGED lineupVars
    /\ UNCHANGED statusVars
    /\ UNCHANGED routerVars
    /\ UNCHANGED smootherVars
    /\ UNCHANGED scoreVars
    /\ UNCHANGED frameVars
    /\ UNCHANGED retryVars
    /\ UNCHANGED jobVars

NextCache ==
    \/ \E game_id \in CacheGames, ttl_hours \in TtlHours : CachePodcast(game_id, ttl_hours)
    \/ \E game_id \in CacheGames : GetCachedPodcast(game_id)
    \/ GetAllCachedGames
    \/ \E game_id \in CacheGames : InvalidateCache(game_id)
    \/ CleanupExpiredCache
    \/ AdvanceClock

SpecCache == InitCache /\ [][NextCache]_vars

-----------------------------------------------------------------------------
(* api/routes/mobile.py: the generate and refresh endpoints, the background  *)
(* task _background_generate_with_notification, and get_job_status           *)

InitJobs ==
    /\ pc = "idle"
    /\ game_context = EmptyContext
    /\ total_duration_minutes = 0
    /\ status = PRE_MATCH
    /\ oracle = "pending"
    /\ prioritized_data = NoData
    /\ result = NoResult
    /\ game = UpcomingGame
    /\ now = Clock0
    /\ detected = "none"
    /\ games = <<>>
    /\ mode = "none"
    /\ smoother_arg = <<>>
    /\ smoother_ret = NoResult
    /\ score_arg = NoData
    /\ score_ret = NoResult
    /\ heap = [r \in Refs |-> FreeCell]
    /\ calls = [p \in CallIds |-> IdleCall]
    /\ retry_pc = "idle"
    /\ max_attempts = 1
    /\ exceptions = {}
    /\ attempt = 0
    /\ delay = initial_delay
    /\ last_exception = None
    /\ history = <<>>
    /\ sleeps = <<>>
    /\ retry_ret = NoResult
    /\ podcast_cache = [g \in CacheGames |-> None]
    /\ cache_now = 0
    /\ cache_ret = NoResult
    /\ jobs = [j \in JobIds |-> None]
    /\ tasks = [j \in JobIds |-> "none"]
    /\ job_ret = NoResult

\* The job_id of the next job: uuid4 never repeats.
FreshJob(job_id) == jobs[job_id] = None /\ \A j \in JobIds : j < job_id => jobs[j] # None

\* POST /generate (lines 115-164): a cached podcast is answered without a job,
\* otherwise a job is created and its task queued.
GeneratePodcastAsync(game_id) ==
    /\ IF get_cached_podcast(podcast_cache, cache_now, game_id) # None
       THEN UNCHANGED <<jobs, tasks>>
       ELSE \E job_id \in JobIds :
               /\ FreshJob(job_id)
               /\ jobs' = [jobs EXCEPT ![job_id] = Some(PodcastJob(game_id))]
               /\ tasks' = [tasks EXCEPT ![job_id] = "queued"]
    /\ UNCHANGED <<podcast_cache, cache_now, cache_ret, job_ret>>
    /\ UNCHANGED lineupVars
    /\ UNCHANGED statusVars
    /\ UNCHANGED routerVars
    /\ UNCHANGED smootherVars
    /\ UNCHANGED scoreVars
    /\ UNCHANGED frameVars
    /\ UNCHANGED retryVars

\* POST /refresh/{game_id} (lines 220-256): the cache entry is invalidated, a
\* job created and its task queued.
RefreshPodcast(game_id) ==
    /\ \E job_id \in JobIds :
          /\ FreshJob(job_id)
          /\ jobs' = [jobs EXCEPT ![job_id] = Some(PodcastJob(game_id))]
          /\ tasks' = [tasks EXCEPT ![job_id] = "queued"]
    /\ podcast_cache' = [podcast_cache EXCEPT ![game_id] = None]
    /\ UNCHANGED <<cache_now, cache_ret, job_ret>>
    /\ UNCHANGED lineupVars
    /\ UNCHANGED statusVars
    /\ UNCHANGED routerVars
    /\ UNCHANGED smootherVars
    /\ UNCHANGED scoreVars
    /\ UNCHANGED frameVars
    /\ UNCHANGED retryVars

\* The task starts (lines 288-307): the job is PROCESSING when
\* orchestrator.generate_podcast is awaited.
TaskStarts(job_id) ==
    /\ tasks[job_id] = "queued"
    /\ jobs' = update_job(jobs, job_id, Some(PROCESSING), None, None)
    /\ tasks' = [tasks EXCEPT ![job_id] = "generating"]
    /\ UNCHANGED <<podcast_cache, cache_now, cache_ret, job_ret>>
    /\ UNCHANGED lineupVars
    /\ UNCHANGED statusVars
    /\ UNCHANGED routerVars
    /\ UNCHANGED smootherVars
    /\ UNCHANGED scoreVars
    /\ UNCHANGED frameVars
    /\ UNCHANGED retryVars

\* generate_podcast returns a completed result with an audio URL (lines
\* 309-339).  When the notification raises, the handler of lines 347-354 marks
\* the completed job FAILED.
GenerationCompletes(job_id, notified) ==
    /\ tasks[job_id] = "generating"
    /\ LET completed == update_job(jobs, job_id, Some(COMPLETED), Some("audio_url"), None)
       IN  jobs' = IF notified THEN completed
                   ELSE update_job(completed, job_id, Some(FAILED), None, Some("exception"))
    /\ podcast_cache' =
          [podcast_cache EXCEPT ![jobs[job_id][1].game_id] =
              Some(CachedPodcast(cache_now, cache_now + cache_ttl_hours))]
    /\ tasks' = [tasks EXCEPT ![job_id] = "ended"]
    /\ UNCHANGED <<cache_now, cache_ret, job_ret>>
    /\ UNCHANGED lineupVars
    /\ UNCHANGED statusVars
    /\ UNCHANGED routerVars
    /\ UNCHANGED smootherVars
    /\ UNCHANGED scoreVars
    /\ UNCHANGED frameVars
    /\ UNCHANGED retryVars

\* generate_podcast returns a result that is not completed or has no audio
\* URL (lines 340-345).
GenerationIncomplete(job_id) ==
    /\ tasks[job_id] = "generating"
    /\ jobs' = update_job(jobs, job_id, Some(FAILED), None,
                          Some("Generation did not complete successfully"))
    /\ tasks' = [tasks EXCEPT ![job_id] = "ended"]
    /\ UNCHANGED <<podcast_cache, cache_now, cache_ret, job_ret>>
    /\ UNCHANGED lineupVars
    /\ UNCHANGED statusVars
    /\ UNCHANGED routerVars
    /\ UNCHANGED smootherVars
    /\ UNCHANGED scoreVars
    /\ UNCHANGED frameVars
    /\ UNCHANGED retryVars

\* generate_podcast raises an exception derived from Exception (lines 347-354).
GenerationRaises(job_id) ==
    /\ tasks[job_id] = "generating"
    /\ jobs' = update_job(jobs, job_id, Some(FAILED), None, Some("exception"))
    /\ tasks' = [tasks EXCEPT ![job_id] = "ended"]
    /\ UNCHANGED <<podcast_cache, cache_now, cache_ret, job_ret>>
    /\ UNCHANGED lineupVars
    /\ UNCHANGED statusVars
    /\ UNCHANGED routerVars
    /\ UNCHANGED smootherVars
    /\ UNCHANGED scoreVars
    /\ UNCHANGED frameVars
    /\ UNCHANGED retryVars

\* The await of generate_podcast raises asyncio.CancelledError, which derives
\* from BaseException: "except Exception" (line 347) does not catch it and the
\* task ends.
GenerationCancelled(job_id) ==
    /\ tasks[job_id] = "generating"
    /\ tasks' = [tasks EXCEPT ![job_id] = "ended"]
    /\ UNCHANGED <<jobs, podcast_cache, cache_now, cache_ret, job_ret>>
    /\ UNCHANGED lineupVars
    /\ UNCHANGED statusVars
    /\ UNCHANGED routerVars
    /\ UNCHANGED smootherVars
    /\ UNCHANGED scoreVars
    /\ UNCHANGED frameVars
    /\ UNCHANGED retryVars

\* GET /job/{job_id} (lines 170-200)
GetJobStatus(job_id) ==
    /\ job_ret' = IF jobs[job_id] = None THEN Raised("HTTPException")
                  ELSE Ok(jobs[job_id][1].status)
    /\ UNCHANGED <<jobs, tasks, podcast_cache, cache_now, cache_ret>>
    /\ UNCHANGED lineupVars
    /\ UNCHANGED statusVars
    /\ UNCHANGED routerVars
    /\ UNCHANGED smootherVars
    /\ UNCHANGED scoreVars
    /\ UNCHANGED frameVars
    /\ UNCHANGED retryVars

TaskEnds(job_id) ==
    \/ \E notified \in BOOLEAN : GenerationCompletes(job_id, notified)
    \/ GenerationIncomplete(job_id)
    \/ GenerationRaises(job_id)
    \/ GenerationCancelled(job_id)

NextJobs ==
    \/ \E game_id \in CacheGames : GeneratePodcastAsync(game_id)
    \/ \E game_id \in CacheGames : RefreshPodcast(game_id)
    \/ \E job_id \in JobIds : TaskStarts(job_id)
    \/ \E job_id \in JobIds : TaskEnds(job_id)
    \/ \E job_id \in JobIds : GetJobStatus(job_id)

SpecJobs == InitJobs /\ [][NextJobs]_vars

\* BackgroundTasks runs every queued task once the response is sent, and the
\* awaited generation comes to an end: a task that can take a step takes one.
SpecJobsLive ==
    /\ SpecJobs
    /\ \A job_id \in JobIds : WF_vars(TaskStarts(job_id)) /\ WF_vars(TaskEnds(job_id))

-----------------------------------------------------------------------------
(* Properties *)

Returned == pc = "done" /\ ~IsRaised(result)

OracleFailed == oracle \in {"APIError", "JSONDecodeError", "Exception"}

Segments == result.value.segments

IsTicket(seg) == seg.topic.fmt = "The Final Ticket"

IsIntro(seg) == seg.topic.fmt = "Introduction" /\ seg.tone_level = 4

IsOutro(seg) == seg.topic.fmt = "Outro" /\ seg.tone_level = 3

\* The positions of the segments built from candidates
ContentPositions ==
    {i \in 2..(Len(Segments) - 1) : ~IsTicket(Segments[i])}

\* C1: the allocated_time of all segments of a returned lineup sums to
\* exactly total_duration_minutes * 60 seconds.
Thm_C1_DurationConserved ==
    Returned => TotalAllocated(Segments) = total_duration_minutes * 60

\* A five-minute lineup in which the content did not fill the available time
\* (a candidate was dropped) and the outro took up the difference.
Wit_C1_OutroAbsorbs ==
    /\ Returned
    /\ oracle = "returned"
    /\ total_duration_minutes = 5
    /\ Len(Segments) < Len(prioritized_data.segment_suggestions) + 3
    /\ ContentPositions # {}
    /\ Segments[Len(Segments)].allocated_time # intro_outro_time \div 2

\* C2: consecutive segments of a returned lineup differ by at most 2 in tone.
Cex_C2_ToneBounded ==
    Returned =>
        \A i \in 2..Len(Segments) :
            Abs(Segments[i].tone_level - Segments[i - 1].tone_level) <= 2

\* C3: when the oracle fails, create_lineup does not raise for a context that
\* identifies the competitors and a positive duration.
Cex_C3_NeverRaisesOnOracleFailure ==
    (pc = "done" /\ OracleFailed /\ game_context.home_team # None
     /\ game_context.away_team # None /\ total_duration_minutes > 0)
        => ~IsRaised(result)

\* C4: the first segment is the intro (tone 4), the last the outro (tone 3),
\* there is at most one sponsored segment and it is second to last.
Thm_C4_Shape ==
    Returned =>
        /\ Len(Segments) >= 2
        /\ IsIntro(Segments[1])
        /\ IsOutro(Segments[Len(Segments)])
        /\ Cardinality({i \in 1..Len(Segments) : IsTicket(Segments[i])}) <= 1
        /\ \A i \in 1..Len(Segments) : IsTicket(Segments[i]) => i = Len(Segments) - 1

\* A lineup with content segments and the sponsored segment.
Wit_C4_TicketBeforeOutro ==
    /\ Returned
    /\ Len(Segments) >= 4
    /\ IsTicket(Segments[Len(Segments) - 1])
    /\ ContentPositions # {}

\* C5: every segment built from a candidate has a non-empty filtered
\* key_data_points list or a non-empty source_data_refs list.
Thm_C5_Grounded ==
    Returned =>
        \A i \in ContentPositions :
            Segments[i].key_data_points # <<>> \/ Segments[i].source_data_refs # <<>>

\* One candidate was dropped by the filter and a kept one has only
\* placeholder facts, all filtered out, and a source reference.
Wit_C5_KeptByReference ==
    /\ Returned
    /\ oracle = "returned"
    /\ Cardinality(ContentPositions) < Len(prioritized_data.segment_suggestions)
    /\ \E i \in ContentPositions :
          Segments[i].key_data_points = <<>> /\ Segments[i].source_data_refs # <<>>

\* C6: a parsed reply holding a candidate that violates the schema is
\* discarded, and the lineup is the one planned from the fallback candidates.
Cex_C6_MalformedTriggersFallback ==
    (pc = "done" /\ oracle = "returned"
     /\ \E i \in 1..Len(prioritized_data.segment_suggestions) :
            ~IsWellFormed(prioritized_data.segment_suggestions[i]))
        => result = PlanLineup(game_context, total_duration_minutes, status,
                               create_fallback_prioritization(game_context, status))

\* C7: create_lineup fails, returning no lineup, when the duration is
\* non-positive or the context does not identify the two competitors.
Cex_C7_PlanningError ==
    (pc = "done" /\ (total_duration_minutes <= 0 \/ game_context.home_team = None
                     \/ game_context.away_team = None))
        => IsRaised(result)

Cex_C9_AllDroppedFallsBack ==
    (Returned /\ oracle = "returned"
     /\ prioritized_data.segment_suggestions # <<>>
     /\ \A i \in 1..Len(prioritized_data.segment_suggestions) :
            LET c == prioritized_data.segment_suggestions[i]
            IN  c.source_refs = <<>>
                /\ \A j \in 1..Len(c.key_facts) : IsPlaceholder(c.key_facts[j]))
        => /\ ContentPositions # {}
           /\ Cardinality(ContentPositions) = 5

\* C10: detect_status returns POST_MATCH whenever the score list has at least
\* two entries and some entry is greater than zero, whatever the status code
\* and the start time.
Thm_C10_ScoreTierWins ==
    (detected # "none" /\ Len(game.scrs) >= 2
     /\ \E i \in 1..Len(game.scrs) : game.scrs[i] > 0)
        => detected = POST_MATCH

\* Scenario D: score pair [2, 1] with the upcoming status code 0.
Wit_C10_ScoreWithUpcomingCode ==
    /\ detected = POST_MATCH
    /\ game.scrs = <<2, 1>>
    /\ game.gt = 0

\* C11: detect_status is a pure function of the snapshot: once a phase was
\* returned for a game, every later call for the same game returns the same
\* phase, whatever the wall clock.
Cex_C11_ClockIndependent ==
    [][detected # "none" => detected' = detected]_vars

\* C12: a create_lineup call that fails over to the fallback returns the
\* lineup the previous failed-over call returned for the same context and
\* duration.
Cex_C12_FallbackDeterminism ==
    [][(pc = "awaiting_oracle" /\ OracleFailed /\ pc' = "done" /\ OracleFailed')
          => result' = result]_vars

\* C13: for every context the sponsored builder yields a config (it does not
\* raise), and for a context without market data the config carries exactly
\* the three placeholder options home, draw, away with odds "N/A".
Cex_C13_ConfigAlwaysBuilt ==
    pc # "idle" =>
        LET config == extract_betting_corner_config(game_context, status)
        IN  /\ ~IsRaised(config)
            /\ game_context.odds.form = "none" =>
                  /\ Len(config.value.featured_odds) = 3
                  /\ config.value.featured_odds[1].name = STR_HomeWin
                  /\ config.value.featured_odds[2].name = STR_Draw
                  /\ config.value.featured_odds[3].name = STR_AwayWin
                  /\ \A i \in 1..3 : config.value.featured_odds[i].current = STR_NA

\* C14: determine_mode returns DAILY_RECAP for no game and for more than one
\* game; for exactly one game it returns GAME_SPOTLIGHT_PREGAME if and only if
\* the status code is <= 0, and GAME_SPOTLIGHT_POSTGAME otherwise.
Thm_C14_RouterModes ==
    mode # "none" =>
        /\ (Len(games) = 0 \/ Len(games) > 1) => mode = DAILY_RECAP
        /\ Len(games) = 1 =>
              /\ (mode = GAME_SPOTLIGHT_PREGAME) <=> (games[1].gt <= 0)
              /\ games[1].gt > 0 => mode = GAME_SPOTLIGHT_POSTGAME

\* One game with the unknown status code 999 was routed to the post-game mode.
Wit_C14_UnknownCodePostgame ==
    /\ Len(games) = 1
    /\ games[1].gt = 999
    /\ mode = GAME_SPOTLIGHT_POSTGAME

\* The score condition of tier 1: a score pair with some entry above zero.
ScoreCondition(g) == Len(g.scrs) >= 2 /\ \E i \in 1..Len(g.scrs) : g.scrs[i] > 0

\* The winner condition: a winner indicator that is present and non-negative.
WinnerCondition(g) == g.winner # None /\ g.winner[1] >= 0

\* C15: when the score condition does not hold (also when there is no score
\* pair) and a winner is present and non-negative, detect_status returns
\* POST_MATCH whatever the status code.
Cex_C15_WinnerTier ==
    (detected # "none" /\ ~ScoreCondition(game) /\ WinnerCondition(game))
        => detected = POST_MATCH

\* C16: when tier 1 does not fire, the status code alone decides for every
\* classified code: 1, 163, 90..199 and the active code 2 give POST_MATCH, a
\* code <= 0 gives PRE_MATCH, whatever the start time.
Thm_C16_StatusCodeDecides ==
    (detected # "none" /\ ScoreTier(game) = None) =>
        /\ (game.gt \in {FINISHED, JUST_ENDED, ACTIVE} \/ (game.gt >= 90 /\ game.gt <= 199))
              => detected = POST_MATCH
        /\ game.gt <= 0 => detected = PRE_MATCH

\* An upcoming code with a start time three hours in the past was classified
\* by the code.
Wit_C16_CodeOverStartTime ==
    /\ detected = PRE_MATCH
    /\ ScoreTier(game) = None
    /\ game.gt = DIDNT_START
    /\ game.stime # None
    /\ game.stime[1].fmt = "iso_tz"
    /\ game.stime[1].t + TwoHoursSeconds < now

\* The start time of g parses.
StimeParses(g) == g.stime # None /\ ParseStime(g.stime[1]).ok

\* What the tertiary rule prescribes at time clock for a game whose start
\* time parses.
PastRule(g, clock) ==
    LET t == ParseStime(g.stime[1]).t
    IN  \/ t + TwoHoursSeconds < clock
        \/ t < clock /\ (g.scrs # <<>> \/ WinnerCondition(g))

\* C17: for a status code that no status rule classifies (3 or 999) and with
\* tier 1 not firing, a detect_status call returns POST_MATCH if the start time
\* parses and the past rule holds at the time of the call, and PRE_MATCH in
\* every other case.
Cex_C17_StartTimeTier ==
    [][(now' = now /\ game.gt \in {3, 999} /\ ScoreTier(game) = None) =>
          detected' = (IF StimeParses(game) /\ PastRule(game, now)
                       THEN POST_MATCH ELSE PRE_MATCH)]_vars

\* C18: the sponsored segment of a returned lineup lasts exactly
\* clamp(total_duration_minutes * 60 / 8, 30, 45) seconds.
Cex_C18_TicketReservation ==
    Returned =>
        \A i \in 1..Len(Segments) :
            IsTicket(Segments[i]) =>
                Segments[i].allocated_time
                    = Min(Max((total_duration_minutes * 60) \div 8, 30), 45)

\* The candidates the Zero-Tolerance Filter retains, in order.
RECURSIVE FilterCandidates(_)
FilterCandidates(cands) ==
    IF cands = <<>> THEN <<>>
    ELSE (IF has_available_data(Head(cands).key_facts, Head(cands))
          THEN <<Head(cands)>> ELSE <<>>)
         \o FilterCandidates(Tail(cands))

\* The content segments of the returned lineup, in order.
ContentSegments ==
    [k \in 1..Cardinality(ContentPositions) |-> Segments[k + 1]]

\* C19: filtering precedes smoothing: the tone levels of the retained segments,
\* and the transition cues of those after the first, are the ones the smoother
\* yields on the filtered candidate list alone.
Cex_C19_FilterBeforeSmoothing ==
    (Returned /\ prioritized_data.segment_suggestions # <<>>) =>
        LET smoothed == enforce_tone_transitions(
                            FilterCandidates(prioritized_data.segment_suggestions))
        IN  /\ Len(ContentSegments) = Len(smoothed)
            /\ \A k \in 1..Len(smoothed) :
                  /\ ContentSegments[k].tone_level = smoothed[k].tone_level
                  /\ k > 1 => ContentSegments[k].transition_cue = smoothed[k].transition_cue

\* C20: whenever a candidate survives the filter, the durations of the content
\* segments sum to exactly total_duration_minutes * 60 minus the intro/outro
\* block and the sponsored reservation.
Cex_C20_ContentExhaustsAvailable ==
    (Returned /\ ContentPositions # {}) =>
        TotalAllocated(ContentSegments)
            = total_duration_minutes * 60 - intro_outro_time - final_ticket_time

\* C21: no segment of a returned lineup, content or sponsored, carries a key
\* data point containing N/A or NOT_AVAILABLE.
Cex_C21_NoPlaceholderSurfaced ==
    Returned =>
        \A i \in 1..Len(Segments) :
            \A j \in 1..Len(Segments[i].key_data_points) :
                ~IsPlaceholder(Segments[i].key_data_points[j])

\* A candidate has a key fact that is not blank and not a placeholder, or it
\* has a source reference.
Grounded(c) ==
    \/ \E j \in 1..Len(c.key_facts) :
          StripNonEmpty(c.key_facts[j]) /\ ~IsPlaceholder(c.key_facts[j])
    \/ c.source_refs # <<>>

\* C22: the content segments of a returned lineup are, in order, exactly the
\* candidates that have a non-blank, non-placeholder key fact or a source
\* reference; every other candidate is omitted.
Thm_C22_FilterRule ==
    (Returned /\ prioritized_data.segment_suggestions # <<>>) =>
        LET kept == SelectSeq(prioritized_data.segment_suggestions, Grounded)
        IN  /\ Len(ContentSegments) = Len(kept)
            /\ \A k \in 1..Len(kept) :
                  /\ ContentSegments[k].topic = kept[k].topic
                  /\ ContentSegments[k].source_data_refs = kept[k].source_refs
                  /\ ContentSegments[k].key_data_points = FilterKeyFacts(kept[k].key_facts)

\* The oracle returned a candidate whose only fact is blank and one whose only
\* fact is a placeholder but which has a source reference: the first was
\* omitted, the second is in the lineup.
Wit_C22_BlankDroppedReferenceKept ==
    /\ Returned
    /\ oracle = "returned"
    /\ Len(prioritized_data.segment_suggestions) = 2
    /\ prioritized_data.segment_suggestions[1].key_facts = << <<" ">> >>
    /\ prioritized_data.segment_suggestions[2].key_facts = <<STR_na>>
    /\ Len(ContentSegments) = 1
    /\ ContentSegments[1].source_data_refs # <<>>

\* The tone levels of a list of candidates.
Tones(segs) == [i \in 1..Len(segs) |-> segs[i].tone_level]

\* C23: _enforce_tone_transitions returns a list of the same length and order
\* in which the first tone is within 2 of 3 and every tone within 2 of the
\* one before; a clamped tone is the previous one plus or minus 2 in the
\* direction of its original value, an unclamped tone is unchanged; every
\* element after the first carries a non-empty transition cue; and the tones
\* (2, 5, 1) become (2, 4, 2).
Thm_C23_SmootherContract ==
    smoother_ret # NoResult =>
        LET input == smoother_arg
            output == smoother_ret.value
            previous(i) == IF i = 1 THEN SmootherStartTone ELSE output[i - 1].tone_level
        IN  /\ Len(output) = Len(input)
            /\ \A i \in 1..Len(input) :
                  /\ output[i] = [input[i] EXCEPT
                                     !.tone_level = output[i].tone_level,
                                     !.transition_cue = output[i].transition_cue]
                  /\ Abs(output[i].tone_level - previous(i)) <= 2
                  /\ output[i].tone_level =
                        (IF Abs(input[i].tone_level - previous(i)) <= 2
                         THEN input[i].tone_level
                         ELSE IF input[i].tone_level > previous(i)
                              THEN previous(i) + 2
                              ELSE previous(i) - 2)
                  /\ i > 1 => /\ output[i].transition_cue.kind # "empty"
                              /\ output[i].transition_cue.text # ""
            /\ Tones(input) = <<2, 5, 1>> => Tones(output) = <<2, 4, 2>>

\* Scenario B: the tones (2, 5, 1) were smoothed to (2, 4, 2), with a cue on
\* the second and the third element.
Wit_C23_ScenarioB ==
    /\ smoother_ret # NoResult
    /\ Tones(smoother_arg) = <<2, 5, 1>>
    /\ Tones(smoother_ret.value) = <<2, 4, 2>>
    /\ smoother_ret.value[2].transition_cue.kind = "gradual"
    /\ smoother_ret.value[3].transition_cue.kind = "gradual"

\* The time available to the content segments (lines 843-845).
AvailableTime == total_duration_minutes * 60 - intro_outro_time - final_ticket_time

\* The last candidate of the list was dropped by the filter, so that every
\* content segment stems from a candidate that is not the last.
LastCandidateDropped ==
    LET cands == prioritized_data.segment_suggestions
    IN  cands # <<>> /\ ~Grounded(cands[Len(cands)])

\* C24: every content segment that does not stem from the last candidate has a
\* duration of at least 15 seconds and of at most the time still unallocated
\* when it is processed.
Cex_C24_DurationWithinRemainder ==
    Returned =>
        \A k \in 1..Len(ContentSegments) :
            (k < Len(ContentSegments) \/ LastCandidateDropped) =>
                /\ ContentSegments[k].allocated_time >= MinSegmentSeconds
                /\ ContentSegments[k].allocated_time
                      <= AvailableTime - TotalAllocated(SubSeq(ContentSegments, 1, k - 1))

\* C25: for a total of at least one minute, every segment of the returned
\* lineup, the reconciled outro included, has a strictly positive allocated_time
\* and a non-negative estimated_word_count.
Cex_C25_PositiveDurations ==
    (Returned /\ total_duration_minutes >= 1) =>
        \A k \in 1..Len(Segments) :
            /\ Segments[k].allocated_time > 0
            /\ Segments[k].estimated_word_count >= 0

\* The n highest of a sequence of weights, highest first.
RECURSIVE Highest(_, _)
Highest(ws, n) ==
    IF n = 0 \/ ws = <<>> THEN <<>>
    ELSE LET i == CHOOSE i \in DOMAIN ws : \A j \in DOMAIN ws : ws[j] <= ws[i]
         IN  <<ws[i]>> \o Highest(SubSeq(ws, 1, i - 1) \o SubSeq(ws, i + 1, Len(ws)), n - 1)

RECURSIVE SumSeq(_)
SumSeq(ws) == IF ws = <<>> THEN 0 ELSE Head(ws) + SumSeq(Tail(ws))

\* The aggregate the specification describes, in tenths: the mean of the three
\* highest weights (50 when there is none), plus 10 capped at 100 when flagged.
ClaimedAggregate(ws, flagged) ==
    LET top == Highest(ws, 3)
        n == Len(top)
        num == IF n = 0 THEN 500 ELSE 10 * SumSeq(top)
        den == IF n = 0 THEN 1 ELSE n
        boosted == IF flagged THEN Min(1000 * den, num + 100 * den) ELSE num
    IN  (2 * boosted + den) \div (2 * den)

CandidateWeights ==
    [k \in 1..Len(score_arg.segment_suggestions) |->
        GetInt(score_arg.segment_suggestions[k].priority, DefaultPriority)]

StoryWeights ==
    [k \in 1..Len(score_arg.priority_stories) |-> score_arg.priority_stories[k].score]

\* The returned score agrees with the described aggregate of the weights ws.
\* Without any weight the default of 50 is accepted with and without the bonus.
AgreesWithAggregate(ws) ==
    LET flagged == score_arg.explosive_quotes # <<>>
    IN  IF ws = <<>>
        THEN score_ret.value \in {500, ClaimedAggregate(ws, flagged)}
        ELSE score_ret.value = ClaimedAggregate(ws, flagged)

\* C26: the aggregate priority score is the mean of the three highest priority
\* weights (of all when fewer than three, 50 when none), increased by 10 and
\* capped at 100 when the oracle flagged a high-impact narrative.  The weights
\* are read either as those of the segment candidates or as the scores of the
\* oracle's priority stories: the score agrees with one of the two readings.
Cex_C26_MeanOfThreeHighest ==
    score_ret.raised = "none" =>
        AgreesWithAggregate(CandidateWeights) \/ AgreesWithAggregate(StoryWeights)

\* The caller's game_context with every reference replaced by its object
CallerView == [r \in {0} \X {"game", "games0"} |-> heap[r]]

\* C27: no step of create_lineup or of generate_script_prompt changes the
\* caller's game_context, however the invocations on it are interleaved.
Thm_C27_ContextUntouched == [][CallerView' = CallerView]_vars

\* A generate_script_prompt returned while a create_lineup on the same context
\* is suspended, and its filtered view lost a key the caller's dict still has.
Wit_C27_FilteredCopyDiffers ==
    \E p \in CallIds, q \in CallIds :
        /\ calls[p].op = "generate_script_prompt" /\ calls[p].pc = "done"
        /\ calls[q].op = "create_lineup" /\ calls[q].pc = "awaiting"
        /\ calls[p].filtered[1].game # None
        /\ "final_score" \in heap[<<0, "game">>].keys
        /\ "final_score" \notin heap[calls[p].filtered[1].game[1]].keys

\* Every invocation recorded so far failed with a listed exception type.
AllListedFailures == \A k \in DOMAIN history : history[k] \in exceptions

\* C30: with max_attempts = n >= 1 the wrapped function is invoked at most n
\* times; a successful invocation is the last one and its result is returned;
\* after n failures with a listed type the exception of the n-th invocation is
\* raised; a sleep follows every failed attempt but the last, so that a
\* finished wrapper slept once less than it invoked the function.
Thm_C30_BoundedRetry ==
    max_attempts >= 1 =>
        /\ Len(history) <= max_attempts
        /\ \A k \in DOMAIN history : history[k] = "ok" =>
              /\ k = Len(history)
              /\ retry_pc = "done"
              /\ retry_ret = Ok(k)
        /\ (Len(history) = max_attempts /\ AllListedFailures) =>
              /\ retry_pc = "done"
              /\ retry_ret = [raised |-> "exception",
                              value |-> Exc(history[max_attempts], max_attempts)]
        /\ retry_pc = "done" => Len(sleeps) = Len(history) - 1
        /\ retry_pc = "in_loop" => Len(sleeps) = Len(history)
        /\ retry_ret.raised = "exception" => Len(history) = retry_ret.value.call

\* Three attempts failed with a listed exception: two sleeps of 1 s and 2 s,
\* and the third exception raised.
Wit_C30_ThreeFailures ==
    /\ max_attempts = 3
    /\ retry_pc = "done"
    /\ Len(history) = 3
    /\ AllListedFailures
    /\ sleeps = <<initial_delay, initial_delay * backoff_factor>>
    /\ retry_ret.raised = "exception"

\* C29: at any time get_cached_podcast(g) returns an entry exactly when g is
\* listed by get_all_cached_games().
Cex_C29_CacheViewsAgree ==
    \A g \in CacheGames :
        (get_cached_podcast(podcast_cache, cache_now, g) # None)
            <=> (g \in get_all_cached_games(podcast_cache, cache_now))

JobSettled(job_id) ==
    jobs[job_id] # None /\ jobs[job_id][1].status \in {COMPLETED, FAILED}

\* C28: every job whose background task runs eventually is COMPLETED or
\* FAILED, and no job is PENDING or PROCESSING once its task has ended.
Cex_C28_JobSettles ==
    /\ [](\A job_id \in JobIds : tasks[job_id] = "ended" => JobSettled(job_id))
    /\ \A job_id \in JobIds : (tasks[job_id] = "generating") ~> JobSettled(job_id)

====
